---- MODULE Spec2Model ----
(***************************************************************************)
(* A model of the session-facing logic of the smh GUI layer:               *)
(*   - the transitions manager (smh/gui/linelist_manager.py): the line     *)
(*     list, its hash index, the spectral models built on it and the       *)
(*     stored conflict groups;                                             *)
(*   - the chemical-abundances tab (smh/gui/chemical_abundances.py): the   *)
(*     single and bulk fits.                                               *)
(* Indices stored in the state (hash index, conflict groups, call logs)    *)
(* are Python indices, i.e. 0-based; sequences are TLA+ sequences.         *)
(***************************************************************************)
EXTENDS Integers, Sequences, FiniteSets, TLC

\* ------------------------------------------------------------------ bounds
\* most rows the session's line list may hold
MaxLines == 2
\* most spectral models the session may hold (transitions manager)
MaxModels == 2
\* most spectral models of a session drawn for the conflict detector
MaxConflictModels == 4
\* most spectral models of a session drawn for the abundances tab
MaxFitModels == 2
\* most spectral models of a session drawn for the measurements of the tab
MaxTabModels == 2
\* most spectral models of a session that models are exported from
MaxExportModels == 2
\* most intervals in the mask of a spectral model
MaxMasks == 3
\* the wavelengths the mouse points at are 1..MaxWavelength
MaxWavelength == 3

\* the largest continuum order picked, the largest bound typed, and the
\* number of edits of options followed
MaxContinuumOrder == 1

MaxBoundValue == 1

MaxEdits == 3

\* the largest wavelength pointed at in a gesture, and the number of presses
\* that start one
MaxX == 2

MaxPresses == 2

\* the number of observed spectra given to a Balmer line dialog, and of
\* dialogs built
MaxSpectra == 2

MaxDialogs == 2

\* ------------------------------------------------------------ input domain
\* The transitions that occur in the files: a transition is identified by its
\* hash, which is computed from its physical fields.
Hashes == 1..3

Wavelength(h) == (h + 1) \div 2
Element(h) == Wavelength(h) % 2
Expot(h) == h % 2
Loggf(h) == h % 3

\* equivalent width (milli-Angstrom) a pre-measured file supplies for h
SuppliedEW(h) == 10 * h

\* The columns of the line list table, in table order.
columns == <<"wavelength", "element", "expot", "loggf", "damp_vdw", "dissoc_E",
             "comments">>

ColumnValue(column, h) ==
    CASE column = "wavelength" -> Wavelength(h)
      [] column = "element" -> Element(h)
      [] column = "expot" -> Expot(h)
      [] column = "loggf" -> Loggf(h)
      [] OTHER -> 0

\* A row of a line list: the transition and its equivalent_width cell
\* (0: the cell is absent or masked).
Row(h, ew) == [hash |-> h, ew |-> ew]

\* a file read: its rows in file order, with or without an equivalent_width
\* column
LineListRead(hs, withEW) ==
    [isset |-> TRUE,
     has_ew |-> withEW,
     rows |-> [i \in 1..Len(hs) |->
                  Row(hs[i], IF withEW THEN SuppliedEW(hs[i]) ELSE 0)]]

\* The files a user can pick: three plain line lists and one with measured
\* equivalent widths.
Files ==
    {LineListRead(<<1>>, FALSE), LineListRead(<<2>>, FALSE),
     LineListRead(<<1, 3>>, FALSE), LineListRead(<<3>>, TRUE)}

\* one file, or two files, picked in the file dialog
Filenames ==
    {<<f>> : f \in Files}
        \cup {<<LineListRead(<<1>>, FALSE), LineListRead(<<2>>, FALSE)>>,
              <<LineListRead(<<1>>, FALSE), LineListRead(<<3>>, TRUE)>>}

NoLineList == [isset |-> FALSE, has_ew |-> FALSE, rows |-> <<>>]

\* ------------------------------------------------------------------ helpers
Range(s) == {s[i] : i \in 1..Len(s)}

HashColumn(ll) == [i \in 1..Len(ll.rows) |-> ll.rows[i].hash]

Reverse(s) == [i \in 1..Len(s) |-> s[Len(s) + 1 - i]]

\* s without the positions outside keep, order kept
RECURSIVE Keep(_, _)
Keep(s, keep) ==
    IF s = <<>> THEN <<>>
    ELSE LET n == Len(s)
             front == Keep(SubSeq(s, 1, n - 1), keep)
         IN IF n \in keep THEN Append(front, s[n]) ELSE front

\* pairs [k, v] sorted by k, pairs of equal k in their original order
RECURSIVE InsertByKey(_, _)
InsertByKey(s, p) ==
    IF s = <<>> THEN <<p>>
    ELSE IF s[Len(s)].k <= p.k THEN Append(s, p)
    ELSE Append(InsertByKey(SubSeq(s, 1, Len(s) - 1), p), s[Len(s)])

RECURSIVE StableSort(_)
StableSort(ps) ==
    IF ps = <<>> THEN <<>>
    ELSE InsertByKey(StableSort(SubSeq(ps, 1, Len(ps) - 1)), ps[Len(ps)])

\* np.argsort of a column: the (0-based) positions in ascending order of value
ArgSort(col) ==
    LET sorted == StableSort([i \in 1..Len(col) |-> [k |-> col[i], v |-> i - 1]])
    IN [i \in 1..Len(col) |-> sorted[i].v]

\* ------------------------------------------------------------ LineList.merge
\* smh.linelists.LineList.merge(other, in_place=False, skip_exactly_equal_lines,
\* ignore_conflicts): a new line list, or ConflictError.
HasHash(rows, h) == \E i \in 1..Len(rows) : rows[i].hash = h

\* a row of the same wavelength and species that differs in other fields
HasConflict(rows, h) ==
    \E i \in 1..Len(rows) :
        /\ rows[i].hash # h
        /\ Wavelength(rows[i].hash) = Wavelength(h)
        /\ Element(rows[i].hash) = Element(h)

RECURSIVE MergeRows(_, _, _, _)
MergeRows(rows, new, skip_exactly_equal_lines, ignore_conflicts) ==
    IF new = <<>> THEN [err |-> "none", rows |-> rows]
    ELSE LET r == Head(new) IN
         IF HasHash(rows, r.hash) /\ skip_exactly_equal_lines
         THEN MergeRows(rows, Tail(new), skip_exactly_equal_lines, ignore_conflicts)
         ELSE IF HasConflict(rows, r.hash) /\ ~ignore_conflicts
         THEN [err |-> "ConflictError", rows |-> rows]
         ELSE MergeRows(Append(rows, r), Tail(new), skip_exactly_equal_lines,
                        ignore_conflicts)

Merge(ll, other, skip_exactly_equal_lines, ignore_conflicts) ==
    LET m == MergeRows(ll.rows, other.rows, skip_exactly_equal_lines, ignore_conflicts)
    IN [err |-> m.err,
        ll |-> [isset |-> TRUE, has_ew |-> ll.has_ew \/ other.has_ew, rows |-> m.rows]]

\* the files of a file dialog merged left to right (the loop over filenames[1:])
RECURSIVE MergeFiles(_, _, _)
MergeFiles(filenames, skip_exactly_equal_lines, ignore_conflicts) ==
    IF Len(filenames) = 1 THEN [err |-> "none", ll |-> filenames[1]]
    ELSE LET n == Len(filenames)
             front == MergeFiles(SubSeq(filenames, 1, n - 1), skip_exactly_equal_lines,
                                 ignore_conflicts)
         IN IF front.err # "none" THEN front
            ELSE Merge(front.ll, filenames[n], skip_exactly_equal_lines,
                       ignore_conflicts)

\* ---------------------------------------------------------- spectral models
\* the fit-result slot: absent ("unfit"), or a result with its equivalent width
\* (micro-Angstrom, 0: not finite) and its abundance (0: no "abundances" key)
NoFit == [present |-> FALSE, ew |-> 0, abund |-> 0]

FitResult(ew, abund) == [present |-> TRUE, ew |-> ew, abund |-> abund]

\* the configuration of a new model: the fitting window, the order of the
\* continuum polynomial, the mask (a list of [s, e])
DefaultConfig == [window |-> 1, continuum_order |-> 1, mask |-> <<>>]

SpectralModel(kind, hashes) ==
    [kind |-> kind, transition_hashes |-> hashes,
     use_for_stellar_parameter_inference |-> TRUE,
     use_for_stellar_composition_inference |-> TRUE,
     is_acceptable |-> FALSE, fitted_result |-> NoFit,
     config |-> DefaultConfig]

ProfileFittingModel(hashes) == SpectralModel("profile", hashes)

SpectralSynthesisModel(hashes) == SpectralModel("synthesis", hashes)

\* models extended by one model per entry of specs ([kind, hashes]), in order
RECURSIVE Extend(_, _)
Extend(models, specs) ==
    IF specs = <<>> THEN models
    ELSE Extend(Append(models, SpectralModel(Head(specs).kind, Head(specs).hashes)),
                Tail(specs))

\* a model made of a state of an archive: its class, its transition hashes
\* and what its metadata hold (a state written without metadata: the defaults)
FromState(state) ==
    LET new == SpectralModel(state.kind, state.hashes)
    IN IF "metadata" \notin DOMAIN state THEN new
       ELSE [new EXCEPT
                !.config = [window |-> state.metadata.window,
                            continuum_order |-> state.metadata.continuum_order,
                            mask |-> state.metadata.mask],
                !.is_acceptable = IF "is_acceptable" \in DOMAIN state.metadata
                                  THEN state.metadata.is_acceptable ELSE FALSE,
                !.fitted_result = IF "fitted_result" \in DOMAIN state.metadata
                                  THEN state.metadata.fitted_result ELSE NoFit]

\* models extended by one model per state of an archive, in order
RECURSIVE Restore(_, _)
Restore(models, states) ==
    IF states = <<>> THEN models
    ELSE Restore(Append(models, FromState(Head(states))), Tail(states))

unique_elements(hs) == {Element(hs[i]) : i \in 1..Len(hs)}

\* ------------------------------------------------------ conflict detection
\* smh.utils.spectral_model_conflicts(spectral_models, line_list): the groups
\* of models that share transitions.
Shares(models, i, j) ==
    Range(models[i].transition_hashes) \cap Range(models[j].transition_hashes) # {}

\* mutant: only the models that share a transition with a member of S directly
Grow_OneStep(models, S) ==
    S \cup {j \in 1..Len(models) : \E i \in S : i # j /\ Shares(models, i, j)}

\* the positions reached from S over shared transitions
RECURSIVE Grow(_, _)
Grow(models, S) ==
    LET T == S \cup {j \in 1..Len(models) : \E i \in S : i # j /\ Shares(models, i, j)}
    IN IF T = S THEN S ELSE Grow(models, T)

\* the members of S in ascending order, as Python indices
RECURSIVE Ascending(_)
Ascending(S) ==
    IF S = {} THEN <<>>
    ELSE LET m == CHOOSE x \in S : \A y \in S : x <= y
         IN <<m - 1>> \o Ascending(S \ {m})

\* the members of S in ascending order
Ascending1(S) == [k \in 1..Cardinality(S) |-> Ascending(S)[k] + 1]

RECURSIVE ConflictScan(_, _, _)
ConflictScan(models, i, seen) ==
    IF i > Len(models) THEN <<>>
    ELSE IF i \in seen THEN ConflictScan(models, i + 1, seen)
    ELSE LET group == Grow(models, {i})
         IN IF Cardinality(group) >= 2
            THEN <<Ascending(group)>> \o ConflictScan(models, i + 1, seen \cup group)
            ELSE ConflictScan(models, i + 1, seen \cup group)

spectral_model_conflicts(models, ll) == ConflictScan(models, 1, {})

\* -------------------------------------------------------------------- state
VARIABLES
    line_list,                        \* session.metadata["line_list"]
    line_list_argsort_hashes,         \* session.metadata["line_list_argsort_hashes"]
    spectral_models,                  \* session.metadata["spectral_models"]
    session_spectral_model_conflicts, \* session._spectral_model_conflicts
    last,                             \* the last handler run, with what it was given
    identity,                         \* which model object each list position holds
    fit_trace,                        \* the last fit handler run: its calls of fit()
    tab,                              \* the chemical abundances tab: table, filter, caches
    tab_trace,                        \* the last handler of the tab run, as observed
    display,                          \* a spectrum display: the masks of the selected model
    exported,                         \* an exported file of spectral models, and its import
    options,                          \* the bounds a user edits: the options table of
                                      \* the Balmer line dialog, the smoothing of the
                                      \* selected synthesis model
    import_trace,                     \* the last import of files: the files, the check box
    sort_trace,                       \* the last sort of the line list table, as asked
    balmer,                           \* the Balmer line dialogs built, and what their
                                      \* classes hold for all of them
    gesture                           \* a widget with a spectrum figure under the mouse:
                                      \* the selected model's masks, the patch drawn,
                                      \* the motion callbacks connected

managerVars == <<line_list, line_list_argsort_hashes, spectral_models,
                 session_spectral_model_conflicts, last>>

\* the widgets with a state of their own
widgetVars == <<display, exported, options, import_trace, sort_trace, gesture, balmer>>

vars == <<managerVars, identity, fit_trace, tab, tab_trace, widgetVars>>

\* no fit handler has run
NoFitTrace ==
    [op |-> "new", calls |-> <<>>, logged |-> <<>>, raised |-> "none",
     returned |-> [is_list |-> FALSE, failures |-> <<>>]]

\* not-a-number, as the caches and the table hold it
NaN == -1

\* ChemicalAbundancesTab.__init__: the table shows the models to use for the
\* abundances, the filter box holds "All", the caches are empty lists.
\* proxy_rows: the (1-based) positions of the models the table shows, in
\* table order.
NewTab ==
    [filters |-> {"use_for_stellar_composition_inference"},
     proxy_rows |-> <<>>,
     filter_combo_box |-> "All",
     currently_plotted_element |-> "None",
     rew_cache |-> <<>>,
     abund_cache |-> <<>>]

\* no spectrum display is in use
NoDisplay ==
    [mask |-> <<>>, antimask_flag |-> FALSE, op |-> "new", pre |-> <<>>, xdata |-> 0,
     found |-> FALSE, raised |-> "none"]

\* nothing was exported
NoArchive ==
    [op |-> "new", written |-> FALSE, line_list_subset |-> <<>>,
     spectral_model_states |-> <<>>, models |-> <<>>, N |-> 0]

\* no file was imported
NoImport == [imported |-> {}, ignore_conflicts |-> FALSE]

\* no mouse was used on a spectrum figure
NoGesture == [widget |-> "none"]

\* the line list table was never sorted
NoSort == [column |-> "none", descending |-> FALSE, pre |-> <<>>]

\* a bound that is not set (None), a bound that is set
None == [set |-> FALSE, v |-> 0]

Bound(v) == [set |-> TRUE, v |-> v]

\* BalmerLineOptionsTableModel._parameters
_parameters == <<"redshift", "smoothing", "continuum">>

\* BalmerLineFittingDialog.__init__: the default options, no bounds; the
\* selected synthesis model has no limits on its smoothing kernel yet.
NewOptions ==
    [_parameters |-> _parameters,
     metadata |-> [redshift |-> TRUE, smoothing |-> FALSE, continuum |-> FALSE,
                   continuum_order |-> <<>>, bounds |-> <<>>],
     sigma_smooth |-> <<None, None>>,
     op |-> "new", parameter |-> "none", column |-> 0, returned |-> FALSE,
     raised |-> "none", typed |-> [kind |-> "none", v |-> 0], edits |-> 0]

\* no Balmer line dialog was built: the class attributes
\* BalmerLineOptionsTableModel._parameters and
\* BalmerLineFittingDialog._default_option_metadata["bounds"] as defined
NoDialogs ==
    [dialogs |-> <<>>, _parameters |-> _parameters, bounds |-> <<>>, op |-> "new",
     raised |-> "none", dialog |-> 0]

\* no handler of the tab has run
NoTabTrace ==
    [op |-> "new", raised |-> "none", cog_called |-> FALSE, cog_transitions |-> <<>>,
     accesses |-> <<>>, added |-> 0]

\* what a handler leaves behind for the observer
Ran(op, err) == [op |-> op, err |-> err, sel |-> {}, pre |-> <<>>, warned |-> FALSE]

Rows == 1..Len(line_list.rows)

Selections == (SUBSET Rows) \ {{}}

ModelSelections == (SUBSET (1..Len(spectral_models))) \ {{}}

\* ------------------------------------------------- LineListTableView: import
\* mutant: the merges never look at the check box and keep conflicting rows
import_from_filename_IgnoresBox(ll, filenames, ignore_conflicts) ==
    LET files == MergeFiles(filenames, TRUE, TRUE)
    IN IF ~ll.isset
       THEN [err |-> "none", session |-> files.ll, transitions |-> files.ll]
       ELSE [err |-> "none", session |-> Merge(ll, files.ll, TRUE, TRUE).ll,
             transitions |-> files.ll]

\* import_from_filename: the files merged with each other, then with the
\* session's line list. session: the session's line list afterwards;
\* transitions: the value returned.
import_from_filename(ll, filenames, ignore_conflicts) ==
    LET files == MergeFiles(filenames, TRUE, ignore_conflicts)
    IN IF files.err # "none"
       THEN [err |-> files.err, session |-> ll, transitions |-> NoLineList]
       ELSE IF ~ll.isset
       THEN [err |-> "none", session |-> files.ll, transitions |-> files.ll]
       ELSE LET m == Merge(ll, files.ll, TRUE, ignore_conflicts)
            IN IF m.err # "none"
               THEN [err |-> m.err, session |-> ll, transitions |-> NoLineList]
               ELSE [err |-> "none", session |-> m.ll, transitions |-> files.ll]

\* the handler raised before it changed anything
Raised(op, err) ==
    /\ last' = Ran(op, err)
    /\ UNCHANGED <<line_list, line_list_argsort_hashes, spectral_models,
                   session_spectral_model_conflicts>>

ImportFromFilename(filenames, ignore_conflicts) ==
    LET got == import_from_filename(line_list, filenames, ignore_conflicts)
    IN /\ Len(got.session.rows) <= MaxLines
       /\ IF got.err # "none" THEN Raised("import_from_filename", got.err)
          ELSE /\ line_list' = got.session
               /\ line_list_argsort_hashes' = ArgSort(HashColumn(got.session))
               /\ last' = Ran("import_from_filename", "none")
               /\ UNCHANGED <<spectral_models, session_spectral_model_conflicts>>

\* one profile model per imported transition
ProfileSpecs(hs) == [i \in 1..Len(hs) |-> [kind |-> "profile", hashes |-> <<hs[i]>>]]

AddImportedLinesAsProfileModels(filenames, ignore_conflicts) ==
    LET got == import_from_filename(line_list, filenames, ignore_conflicts)
        models == Extend(spectral_models, ProfileSpecs(HashColumn(got.transitions)))
    IN /\ Len(got.session.rows) <= MaxLines
       /\ IF got.err # "none"
          THEN Raised("add_imported_lines_as_profile_models", got.err)
          ELSE /\ Len(models) <= MaxModels
               /\ line_list' = got.session
               /\ line_list_argsort_hashes' = ArgSort(HashColumn(got.session))
               /\ spectral_models' = models
               /\ session_spectral_model_conflicts'
                      = spectral_model_conflicts(models, got.session)
               /\ last' = Ran("add_imported_lines_as_profile_models", "none")

\* one synthesis model per file; a file of several elements asks which to
\* measure, and is skipped when the user picks none (picked = FALSE)
RECURSIVE SynthesisSpecs(_, _)
SynthesisSpecs(filenames, picked) ==
    IF filenames = <<>> THEN <<>>
    ELSE LET n == Len(filenames)
             hs == HashColumn(filenames[n])
             front == SynthesisSpecs(SubSeq(filenames, 1, n - 1), picked)
         IN IF Cardinality(unique_elements(hs)) = 1 \/ picked
            THEN Append(front, [kind |-> "synthesis", hashes |-> hs])
            ELSE front

AddImportedLinesAsSynthesisModel(filenames, ignore_conflicts, picked) ==
    LET got == import_from_filename(line_list, filenames, ignore_conflicts)
        models == Extend(spectral_models, SynthesisSpecs(filenames, picked))
    IN /\ Len(got.session.rows) <= MaxLines
       /\ IF got.err # "none"
          THEN Raised("add_imported_lines_as_synthesis_model", got.err)
          ELSE /\ Len(models) <= MaxModels
               /\ line_list' = got.session
               /\ line_list_argsort_hashes' = ArgSort(HashColumn(got.session))
               /\ spectral_models' = models
               /\ session_spectral_model_conflicts'
                      = spectral_model_conflicts(models, got.session)
               /\ last' = Ran("add_imported_lines_as_synthesis_model", "none")

\* --------------------------------------- LineListTableView: selected rows
\* the hashes of the selected rows, in row order
SelectedHashes(ll, sel) == HashColumn([rows |-> Keep(ll.rows, sel)])

AddSelectedRowsAsProfileModels(sel) ==
    LET models == Extend(spectral_models, ProfileSpecs(SelectedHashes(line_list, sel)))
    IN /\ line_list.isset
       /\ sel \in Selections
       /\ Len(models) <= MaxModels
       /\ spectral_models' = models
       /\ session_spectral_model_conflicts' = spectral_model_conflicts(models, line_list)
       /\ last' = Ran("add_selected_rows_as_profile_models", "none")
       /\ UNCHANGED <<line_list, line_list_argsort_hashes>>

AddSelectedRowsAsSynthesisModel(sel, picked) ==
    /\ line_list.isset
    /\ sel \in Selections
    /\ LET hs == SelectedHashes(line_list, sel)
           models == Extend(spectral_models, <<[kind |-> "synthesis", hashes |-> hs]>>)
       IN IF Cardinality(unique_elements(hs)) # 1 /\ ~picked
          THEN \* nothing selected in the dialog: no new spectral model
               /\ last' = Ran("add_selected_rows_as_synthesis_model", "cancelled")
               /\ UNCHANGED <<line_list, line_list_argsort_hashes, spectral_models,
                              session_spectral_model_conflicts>>
          ELSE /\ Len(models) <= MaxModels
               /\ spectral_models' = models
               /\ session_spectral_model_conflicts'
                      = spectral_model_conflicts(models, line_list)
               /\ last' = Ran("add_selected_rows_as_synthesis_model", "none")
               /\ UNCHANGED <<line_list, line_list_argsort_hashes>>

\* all_hashes_used: the hashes some spectral model owns
AllHashesUsed(models) ==
    UNION {Range(models[i].transition_hashes) : i \in 1..Len(models)}

\* mutant: a selection that holds a used transition deletes nothing
DeleteMask_AllOrNothing(ll, sel, models) ==
    IF \E i \in sel : ll.rows[i].hash \in AllHashesUsed(models)
    THEN 1..Len(ll.rows)
    ELSE (1..Len(ll.rows)) \ sel

\* mutant: the selected rows are deleted whether or not a model uses them
DeleteMask_IgnoresModels(ll, sel, models) == (1..Len(ll.rows)) \ sel

\* the rows delete_selected_rows keeps (mask[row] = True): every row but the
\* selected ones that no spectral model uses
DeleteMask(ll, sel, models) ==
    {i \in 1..Len(ll.rows) :
        ~(i \in sel /\ ll.rows[i].hash \notin AllHashesUsed(models))}

N_skipped(ll, sel, models) ==
    Cardinality({i \in sel : ll.rows[i].hash \in AllHashesUsed(models)})

DeleteSelectedRows(sel) ==
    /\ line_list.isset
    /\ sel \in Selections
    /\ LET mask == DeleteMask(line_list, sel, spectral_models)
           kept == [line_list EXCEPT !.rows = Keep(line_list.rows, mask)]
       IN /\ last' = [Ran("delete_selected_rows", "none") EXCEPT
                         !.sel = sel,
                         !.pre = line_list.rows,
                         !.warned = N_skipped(line_list, sel, spectral_models) > 0]
          /\ IF mask = Rows
             THEN UNCHANGED <<line_list, line_list_argsort_hashes>>
             ELSE /\ line_list' = kept
                  /\ line_list_argsort_hashes' = ArgSort(HashColumn(kept))
          /\ UNCHANGED <<spectral_models, session_spectral_model_conflicts>>

\* ------------------------- LineListTableView: pre-measured equivalent widths
\* the equivalent width stored for a supplied one: 1e-3 Angstrom per
\* milli-Angstrom, held in micro-Angstrom
MeasuredEquivalentWidth(supplied) == 1000 * supplied

MeasuredModel(row) ==
    [ProfileFittingModel(<<row.hash>>) EXCEPT
        !.is_acceptable = TRUE,
        !.fitted_result = FitResult(MeasuredEquivalentWidth(row.ew), 0)]

RECURSIVE ExtendMeasured(_, _)
ExtendMeasured(models, rows) ==
    IF rows = <<>> THEN models
    ELSE ExtendMeasured(Append(models, MeasuredModel(Head(rows))), Tail(rows))

ImportTransitionsWithMeasuredEquivalentWidths(filenames) ==
    LET op == "import_transitions_with_measured_equivalent_widths"
        files == MergeFiles(filenames, FALSE, FALSE)
        merged == IF line_list.isset THEN Merge(line_list, files.ll, FALSE, FALSE)
                  ELSE files
        \* the session's line list when the hash index is computed
        indexed == IF line_list.isset THEN line_list ELSE files.ll
        models == ExtendMeasured(spectral_models, merged.ll.rows)
    IN IF files.err # "none" THEN Raised(op, files.err)
       ELSE IF merged.err # "none" THEN Raised(op, merged.err)
       ELSE /\ Len(merged.ll.rows) <= MaxLines
            /\ line_list_argsort_hashes' = ArgSort(HashColumn(indexed))
            /\ IF ~merged.ll.has_ew
               THEN /\ line_list' = indexed
                    /\ last' = Ran(op, "KeyError")
                    /\ UNCHANGED <<spectral_models, session_spectral_model_conflicts>>
               ELSE /\ Len(models) <= MaxModels
                    /\ line_list' = merged.ll
                    /\ spectral_models' = models
                    /\ session_spectral_model_conflicts'
                           = spectral_model_conflicts(models, merged.ll)
                    /\ last' = Ran(op, "none")

\* ------------------------------------------------- LineListTableModel.sort
SortRows(rows, column) ==
    LET sorted == StableSort([i \in 1..Len(rows) |->
                                 [k |-> ColumnValue(column, rows[i].hash), v |-> rows[i]]])
    IN [i \in 1..Len(rows) |-> sorted[i].v]

LineListSorted(ll, column, descending) ==
    LET ascending == SortRows(ll.rows, column)
    IN [ll EXCEPT !.rows = IF descending THEN Reverse(ascending) ELSE ascending]

LineListSort(column, descending) ==
    /\ line_list.isset
    /\ line_list' = LineListSorted(line_list, column, descending)
    /\ line_list_argsort_hashes' = ArgSort(HashColumn(line_list'))
    /\ last' = Ran("LineListTableModel.sort", "none")
    /\ UNCHANGED <<spectral_models, session_spectral_model_conflicts>>

\* ---------------------------------------------- SpectralModelsTableModel.sort
RECURSIVE Sum(_)
Sum(s) == IF s = <<>> THEN 0 ELSE Head(s) + Sum(Tail(s))

\* sm.transitions["wavelength"].mean(), in twelfths (exact for 1, 2, 3, 4 and
\* 6 transitions)
MeanWavelength(m) ==
    LET hs == m.transition_hashes
    IN (12 * Sum([i \in 1..Len(hs) |-> Wavelength(hs[i])])) \div Len(hs)

\* sm._repr_element: the element of the model's first transition
ReprElement(m) == Element(m.transition_hashes[1])

Bool(b) == IF b THEN 1 ELSE 0

\* the sort keys of the spectral models table, by column
sorters(column, m) ==
    CASE column = 0 -> MeanWavelength(m)
      [] column = 1 -> ReprElement(m)
      [] column = 2 -> Bool(m.kind = "synthesis")
      [] column = 3 -> Bool(m.use_for_stellar_parameter_inference)
      [] column = 4 -> Bool(m.use_for_stellar_composition_inference)

\* the positions of the models in the order list.sort(key=sorters[column]),
\* then reverse() when descending, leaves them
SortPermutation(models, column, descending) ==
    LET sorted == StableSort([i \in 1..Len(models) |->
                                 [k |-> sorters(column, models[i]), v |-> i]])
        ascending == [i \in 1..Len(models) |-> sorted[i].v]
    IN IF descending THEN Reverse(ascending) ELSE ascending

Permute(s, perm) == [i \in 1..Len(perm) |-> s[perm[i]]]

SortedModels(models, column, descending) ==
    Permute(models, SortPermutation(models, column, descending))

\* mutant: the conflicts are not recomputed
ConflictsAfterSort_Stale(models, ll) == session_spectral_model_conflicts

\* the conflicts the spectral models table stores once it has sorted
ConflictsAfterSort(models, ll) == spectral_model_conflicts(models, ll)

\* "spectral_models" is in the metadata once a model was added; the empty
\* list stands for both
SpectralModelsSort(column, descending) ==
    /\ spectral_models # <<>>
    /\ spectral_models' = SortedModels(spectral_models, column, descending)
    /\ session_spectral_model_conflicts' = ConflictsAfterSort(spectral_models', line_list)
    /\ last' = Ran("SpectralModelsTableModel.sort", "none")
    /\ UNCHANGED <<line_list, line_list_argsort_hashes>>

\* --------------------------------- SpectralModelsTableView.delete_selected_rows
\* mutant: the conflicts are not recomputed
ConflictsAfterDelete_Stale(models, ll) == session_spectral_model_conflicts

\* the conflicts the view stores once it has deleted the selected models
ConflictsAfterDelete(models, ll) == spectral_model_conflicts(models, ll)

SpectralModelsDeleteSelectedRows(sel) ==
    /\ sel \in ModelSelections
    /\ spectral_models' = Keep(spectral_models, (1..Len(spectral_models)) \ sel)
    /\ session_spectral_model_conflicts' = ConflictsAfterDelete(spectral_models', line_list)
    /\ last' = [Ran("SpectralModelsTableView.delete_selected_rows", "none")
                   EXCEPT !.sel = sel, !.pre = session_spectral_model_conflicts]
    /\ UNCHANGED <<line_list, line_list_argsort_hashes>>

\* ------------------------------------------ TransitionsDialog.import_transitions
\* An exported archive: the line list subset and the spectral model states.
Archives ==
    {[line_list |-> LineListRead(<<1, 3>>, FALSE),
      states |-> <<[kind |-> "profile", hashes |-> <<1>>],
                   [kind |-> "profile", hashes |-> <<1, 3>>]>>],
     [line_list |-> LineListRead(<<3>>, FALSE),
      states |-> <<[kind |-> "synthesis", hashes |-> <<3>>]>>]}

\* session.import_transitions(path): the archive's line list merged into the
\* session's, its models appended; N: the number of models loaded
SessionImportTransitions(ll, models, archive) ==
    LET m == IF ll.isset THEN Merge(ll, archive.line_list, TRUE, FALSE)
             ELSE [err |-> "none", ll |-> archive.line_list]
    IN [err |-> m.err, line_list |-> m.ll,
        spectral_models |-> Restore(models, archive.states),
        N |-> Len(archive.states)]

ImportTransitions(archive) ==
    LET got == SessionImportTransitions(line_list, spectral_models, archive)
    IN IF got.err # "none" THEN Raised("import_transitions", got.err)
       ELSE /\ Len(got.line_list.rows) <= MaxLines
            /\ Len(got.spectral_models) <= MaxModels
            /\ line_list' = got.line_list
            /\ line_list_argsort_hashes' = ArgSort(HashColumn(got.line_list))
            /\ spectral_models' = got.spectral_models
            /\ session_spectral_model_conflicts'
                   = IF got.N > 0
                     THEN spectral_model_conflicts(got.spectral_models, got.line_list)
                     ELSE session_spectral_model_conflicts
            /\ last' = Ran("import_transitions", "none")

\* ------------------------------------------------- the transitions manager
\* a new session: no line list, no spectral models
InitManager ==
    /\ line_list = NoLineList
    /\ line_list_argsort_hashes = <<>>
    /\ spectral_models = <<>>
    /\ session_spectral_model_conflicts = <<>>
    /\ last = Ran("new", "none")
    /\ identity = <<>>
    /\ fit_trace = NoFitTrace
    /\ tab = NewTab
    /\ tab_trace = NoTabTrace
    /\ display = NoDisplay
    /\ exported = NoArchive
    /\ options = NewOptions
    /\ import_trace = NoImport
    /\ sort_trace = NoSort
    /\ balmer = NoDialogs
    /\ gesture = NoGesture

ManagerStep ==
    \/ \E f \in Filenames, c \in BOOLEAN : ImportFromFilename(f, c)
    \/ \E f \in Filenames, c \in BOOLEAN : AddImportedLinesAsProfileModels(f, c)
    \/ \E f \in Filenames, c \in BOOLEAN, p \in BOOLEAN :
           AddImportedLinesAsSynthesisModel(f, c, p)
    \/ \E sel \in Selections : AddSelectedRowsAsProfileModels(sel)
    \/ \E sel \in Selections, p \in BOOLEAN : AddSelectedRowsAsSynthesisModel(sel, p)
    \/ \E sel \in Selections : DeleteSelectedRows(sel)
    \/ \E f \in Filenames : ImportTransitionsWithMeasuredEquivalentWidths(f)
    \/ \E c \in 1..Len(columns), d \in BOOLEAN : LineListSort(columns[c], d)
    \/ \E c \in 0..4, d \in BOOLEAN : SpectralModelsSort(c, d)
    \/ \E sel \in ModelSelections : SpectralModelsDeleteSelectedRows(sel)
    \/ \E a \in Archives : ImportTransitions(a)

NextManager == ManagerStep /\ UNCHANGED <<widgetVars, identity, fit_trace, tab, tab_trace>>

SpecManager == InitManager /\ [][NextManager]_vars

\* ------------------------------------------------- claims: line list delete
\* the positions of pre whose row delete_selected_rows must leave in place:
\* the rows not selected, and the selected rows a spectral model refers to
Referenced(h) ==
    \E i \in 1..Len(spectral_models) :
        \E k \in 1..Len(spectral_models[i].transition_hashes) :
            spectral_models[i].transition_hashes[k] = h

Surviving == {i \in 1..Len(last.pre) : i \notin last.sel \/ Referenced(last.pre[i].hash)}

C2_ModelsResolve ==
    \A i \in 1..Len(spectral_models) :
        /\ spectral_models[i].transition_hashes # <<>>
        /\ Range(spectral_models[i].transition_hashes) \subseteq Range(HashColumn(line_list))

\* transitions were deleted from the line list of a session that has models
C2_Witness ==
    /\ last.op = "delete_selected_rows"
    /\ spectral_models # <<>>
    /\ Len(line_list.rows) < Len(last.pre)
    /\ ~last.warned

\* idx lists every (0-based) position of col once, in ascending order of value
IsArgsortOf(idx, col) ==
    /\ Len(idx) = Len(col)
    /\ Range(idx) = 0..(Len(col) - 1)
    /\ \A i, j \in 1..Len(idx) : i < j => col[idx[i] + 1] <= col[idx[j] + 1]

\* C3: between handlers, the hash index is the argsort of the hash column of
\* the session's line list.
C3_HashIndexCurrent ==
    IsArgsortOf(line_list_argsort_hashes, HashColumn(line_list))

\* C4: between handlers, the stored conflict groups are those of the current
\* spectral models and line list.
C4_ConflictsCurrent ==
    session_spectral_model_conflicts = spectral_model_conflicts(spectral_models, line_list)

\* spectral models were deleted and the conflict they were part of is gone
C4_Witness ==
    /\ last.op = "SpectralModelsTableView.delete_selected_rows"
    /\ last.pre # <<>>
    /\ spectral_models # <<>>
    /\ session_spectral_model_conflicts = <<>>

\* ------------------------------------------------ the spectral models table
\* The spectral models a session may hold when the table is opened: profile
\* and synthesis models over the transitions h1, h2, h3, with the flags the
\* check boxes of the table may have left them.
ConflictVariants ==
    {[ProfileFittingModel(<<1>>) EXCEPT
         !.use_for_stellar_parameter_inference = TRUE,
         !.use_for_stellar_composition_inference = TRUE],
     [ProfileFittingModel(<<1, 2>>) EXCEPT
         !.use_for_stellar_parameter_inference = FALSE,
         !.use_for_stellar_composition_inference = TRUE],
     [SpectralSynthesisModel(<<2>>) EXCEPT
         !.use_for_stellar_parameter_inference = TRUE,
         !.use_for_stellar_composition_inference = FALSE],
     [ProfileFittingModel(<<3>>) EXCEPT
         !.use_for_stellar_parameter_inference = FALSE,
         !.use_for_stellar_composition_inference = FALSE]}

\* a session with a line list of three transitions and up to MaxConflictModels
\* models, its conflicts as the handler that added the last model stored them
InitConflicts ==
    /\ line_list = LineListRead(<<1, 2, 3>>, FALSE)
    /\ line_list_argsort_hashes = ArgSort(HashColumn(line_list))
    /\ spectral_models \in UNION {[1..n -> ConflictVariants] : n \in 0..MaxConflictModels}
    /\ session_spectral_model_conflicts
           = spectral_model_conflicts(spectral_models, line_list)
    /\ last = Ran("new", "none")
    /\ identity = [i \in 1..Len(spectral_models) |-> i]
    /\ fit_trace = NoFitTrace
    /\ tab = NewTab
    /\ tab_trace = NoTabTrace
    /\ display = NoDisplay
    /\ exported = NoArchive
    /\ options = NewOptions
    /\ import_trace = NoImport
    /\ sort_trace = NoSort
    /\ balmer = NoDialogs
    /\ gesture = NoGesture

\* the table is sorted: the model objects move with their list positions
TableSort(column, descending) ==
    /\ SpectralModelsSort(column, descending)
    /\ identity' = Permute(identity, SortPermutation(spectral_models, column, descending))
    /\ UNCHANGED <<widgetVars, fit_trace, tab, tab_trace>>

\* the selected models are deleted: the other model objects stay, in order
TableDeleteSelectedRows(sel) ==
    /\ SpectralModelsDeleteSelectedRows(sel)
    /\ identity' = Keep(identity, (1..Len(spectral_models)) \ sel)
    /\ UNCHANGED <<widgetVars, fit_trace, tab, tab_trace>>

NextConflicts ==
    \/ \E c \in 0..4, d \in BOOLEAN : TableSort(c, d)
    \/ \E sel \in ModelSelections : TableDeleteSelectedRows(sel)

SpecConflicts == InitConflicts /\ [][NextConflicts]_vars

\* ------------------------------------------------ claims: conflict detection
\* the (1-based) positions a conflict group names
Members(group) == {group[k] + 1 : k \in 1..Len(group)}

\* groups are exactly the connected components, of two models or more, of the
\* graph on the positions of models with an edge between two models that
\* share a transition; each group ascending, the groups in the order of their
\* smallest member
IsComponents(groups, models) ==
    LET n == Len(models)
        G == 1..Len(groups)
        Edge(i, j) == i # j /\ Shares(models, i, j)
    IN /\ \A g \in G :
              /\ Len(groups[g]) >= 2
              /\ Members(groups[g]) \subseteq 1..n
              /\ \A k \in 1..(Len(groups[g]) - 1) : groups[g][k] < groups[g][k + 1]
       /\ \A g, h \in G : g < h => groups[g][1] < groups[h][1]
       /\ \A g, h \in G : g # h => Members(groups[g]) \cap Members(groups[h]) = {}
       \* no edge leaves a group, and every model with an edge is in a group
       /\ \A i, j \in 1..n :
              Edge(i, j) => \E g \in G : {i, j} \subseteq Members(groups[g])
       \* a group does not fall apart: every split of it is crossed by an edge
       /\ \A g \in G :
              \A S \in (SUBSET Members(groups[g])) \ {{}, Members(groups[g])} :
                  \E i \in S, j \in Members(groups[g]) \ S : Edge(i, j)

\* C5: the conflicts of a model list are the connected components of size two
\* or more of the shares-a-transition graph (so grouping is transitive and a
\* model that shares nothing is in no group); ProfileFittingModel(h1) and
\* ProfileFittingModel(h1, h2) over the line list {h1, h2, h3} give the one
\* group {0, 1}.
C5_ConnectedComponents ==
    /\ IsComponents(spectral_model_conflicts(spectral_models, line_list), spectral_models)
    /\ (/\ Len(spectral_models) = 2
        /\ spectral_models[1].kind = "profile"
        /\ spectral_models[1].transition_hashes = <<1>>
        /\ spectral_models[2].kind = "profile"
        /\ spectral_models[2].transition_hashes = <<1, 2>>
        /\ Range(HashColumn(line_list)) = {1, 2, 3})
           => spectral_model_conflicts(spectral_models, line_list) = <<<<0, 1>>>>

\* a group holds two models that share nothing with each other, and some
\* model is in no group
C5_Witness ==
    /\ \E g \in 1..Len(session_spectral_model_conflicts) :
           \E i, j \in Members(session_spectral_model_conflicts[g]) :
               i # j /\ ~Shares(spectral_models, i, j)
    /\ \E i \in 1..Len(spectral_models) :
           \A g \in 1..Len(session_spectral_model_conflicts) :
               i \notin Members(session_spectral_model_conflicts[g])

\* the groups as sets of model objects, ident[i] being the object at position i
IdentityGroups(groups, ident) ==
    {{ident[groups[g][k] + 1] : k \in 1..Len(groups[g])} : g \in 1..Len(groups)}

ListPermutations(n) == {p \in [1..n -> 1..n] : Range(p) = 1..n}

\* every reordering of the current model list has the same groups of objects
SamePermutedGroups ==
    \A p \in ListPermutations(Len(spectral_models)) :
        IdentityGroups(spectral_model_conflicts(Permute(spectral_models, p), line_list), p)
            = IdentityGroups(spectral_model_conflicts(spectral_models, line_list),
                             [i \in 1..Len(spectral_models) |-> i])

\* a sort of the table leaves the stored groups, as sets of objects, as they were
SameGroupsAfterSort ==
    last'.op = "SpectralModelsTableModel.sort" =>
        IdentityGroups(session_spectral_model_conflicts', identity')
            = IdentityGroups(session_spectral_model_conflicts, identity)

\* C6: conflict detection does not depend on the order of the models: every
\* permutation of the model list has the same conflict groups, read as sets
\* of model objects, and so has the stored list after the table was sorted by
\* any column in either direction.
C6_OrderIndependent == []SamePermutedGroups /\ [][SameGroupsAfterSort]_vars

\* the table was sorted, model objects changed places, and there are conflicts
C6_Witness ==
    /\ last.op = "SpectralModelsTableModel.sort"
    /\ session_spectral_model_conflicts # <<>>
    /\ \E i, j \in 1..Len(identity) : i < j /\ identity[i] > identity[j]

\* ------------------------------------------------ the chemical abundances tab
\* ---------------------------------------------------- the table and the caches
\* the text of a cell: blank ("") or the text of a number
Blank == [blank |-> TRUE, value |-> 0]

Text(value) == [blank |-> FALSE, value |-> value]

\* log10(equivalent_width / wavelength), as the number the table prints
ReducedEquivalentWidth(ew, wavelength) == 10 * ew + wavelength

\* SpectralModelsTableModel.data(index, DisplayRole) for the columns the caches
\* are built from: 0 (acceptable: nothing is displayed), 2 (abundance) and
\* 4 (reduced equivalent width). A synthesis fit holds no equivalent width.
data(m, column) ==
    CASE column = 0 -> Blank
      [] column = 2 ->
            IF m.fitted_result.present /\ m.fitted_result.abund # 0
            THEN Text(m.fitted_result.abund) ELSE Blank
      [] column = 4 ->
            IF m.fitted_result.present /\ m.kind = "profile" /\ m.fitted_result.ew # NaN
            THEN Text(ReducedEquivalentWidth(m.fitted_result.ew,
                                             Wavelength(m.transition_hashes[1])))
            ELSE Blank

\* try: rew = float(data(row, 4)); abund = float(data(row, 2))
\* except ValueError: both NaN
CacheEntry(m) ==
    IF data(m, 4).blank \/ data(m, 2).blank
    THEN [rew |-> NaN, abund |-> NaN]
    ELSE [rew |-> data(m, 4).value, abund |-> data(m, 2).value]

\* the name of an element in the filter box
ElementName(e) == IF e = 0 THEN "E0" ELSE "E1"

\* a filter function of the proxy model, by the name it was added under
FilterAccepts(name, m) ==
    IF name = "use_for_stellar_composition_inference"
    THEN m.use_for_stellar_composition_inference
    ELSE \E e \in unique_elements(m.transition_hashes) : ElementName(e) = name

\* proxy_spectral_models.reset(): the rows are the models all filters accept
ProxyReset(t, models) ==
    [t EXCEPT !.proxy_rows =
        Ascending1({i \in 1..Len(models) : \A f \in t.filters : FilterAccepts(f, models[i])})]

\* mutant: the caches are rebuilt from the model list, one entry per model
refresh_cache_PerModel(t, models) ==
    [t EXCEPT
        !.currently_plotted_element = t.filter_combo_box,
        !.rew_cache = [i \in 1..Len(models) |-> CacheEntry(models[i]).rew],
        !.abund_cache = [i \in 1..Len(models) |-> CacheEntry(models[i]).abund]]

\* refresh_cache: both caches rebuilt, one entry per row of the table
refresh_cache(t, models) ==
    [t EXCEPT
        !.currently_plotted_element = t.filter_combo_box,
        !.rew_cache = [r \in 1..Len(t.proxy_rows) |-> CacheEntry(models[t.proxy_rows[r]]).rew],
        !.abund_cache = [r \in 1..Len(t.proxy_rows) |-> CacheEntry(models[t.proxy_rows[r]]).abund]]

\* A handler of the tab under way: the tab, the cache accesses by row made so
\* far (the row, the length of the cache and the number of rows of the table
\* at each), and the error that ended it.
Running(t) == [tab |-> t, accesses |-> <<>>, raised |-> "none"]

\* self._rew_cache[row] is read or written (row: the 1-based table row)
Access(run, row) ==
    LET len == Len(run.tab.rew_cache)
    IN [run EXCEPT
           !.accesses = Append(@, [row |-> row, len |-> len,
                                    rows |-> Len(run.tab.proxy_rows)]),
           !.raised = IF row > len THEN "IndexError" ELSE "none"]

\* update_cache(proxy_index): data(row, 0) displays nothing, so ValueError is
\* raised and caught, and NaN is put in both caches at the row
update_cache(run, models, row) ==
    IF run.raised # "none" THEN run
    ELSE LET m == models[run.tab.proxy_rows[row]]
             entry == IF data(m, 0).blank THEN [rew |-> NaN, abund |-> NaN]
                      ELSE CacheEntry(m)
             acc == Access(run, row)
         IN IF acc.raised # "none" THEN acc
            ELSE [acc EXCEPT !.tab.rew_cache[row] = entry.rew,
                             !.tab.abund_cache[row] = entry.abund]

\* update_selected_points_plot: the caches are read at the selected row
\* (selected = 0: no row is selected)
update_selected_points_plot(run, selected) ==
    IF run.raised # "none" \/ run.tab.filter_combo_box = "All" \/ selected = 0 THEN run
    ELSE Access(run, selected)

\* update_line_strength_figure: the caches are plotted whole, after a refresh
\* when the element plotted is not the one of the filter box
update_line_strength_figure(run, models) ==
    IF run.raised # "none" \/ run.tab.filter_combo_box = "All" THEN run
    ELSE IF run.tab.filter_combo_box = run.tab.currently_plotted_element THEN run
    ELSE [run EXCEPT !.tab = refresh_cache(@, models)]

refresh_plots(run, models, selected) ==
    update_line_strength_figure(update_selected_points_plot(run, selected), models)

\* filter_combo_box_changed, the text of the box being text: the filters are
\* dropped, the filter of the element is added, the caches are refreshed.
\* The reset of the table clears the selection.
filter_combo_box_changed(run, models, text) ==
    IF run.raised # "none" THEN run
    ELSE LET boxed == [run.tab EXCEPT
                          !.filter_combo_box = text,
                          !.filters = IF text \in {"", "All"} THEN {} ELSE {text}]
         IN refresh_plots([run EXCEPT !.tab = refresh_cache(ProxyReset(boxed, models), models)],
                          models, 0)

\* mutant: the filter box signals no change when it is filled again
refresh_table_NoSignal(run, models) == [run EXCEPT !.tab = ProxyReset(@, models)]

\* refresh_table: the table is reset and the filter box filled again; the box
\* signals a change of its current item when it is cleared (no item, text "")
\* and when its first item ("All") is added
refresh_table(run, models) ==
    LET reset == [run EXCEPT !.tab = ProxyReset(@, models)]
    IN filter_combo_box_changed(filter_combo_box_changed(reset, models, ""), models, "All")

\* the tab once populate_widgets has run on a session with these models
PopulatedTab(models) == refresh_table(Running(NewTab), models).tab

\* what a handler of the tab leaves behind for the observer
TabTrace(op, run) ==
    [NoTabTrace EXCEPT !.op = op, !.raised = run.raised, !.accesses = run.accesses]

\* The ways one call of spectral_model.fit() may end: it returns, or it raises.
\* KeyError stands for the error classes that are neither ValueError nor
\* RuntimeError nor derived from them.
FitErrors == {"ValueError", "RuntimeError", "KeyError"}

FitOutcomes == {"ok"} \cup FitErrors

\* the result a fit that succeeds now writes
NewFit == FitResult(2, 0)

\* spectral_model.fit(): a success overwrites the fit-result slot, a failure
\* leaves the model as it was
Fit(m, outcome) == IF outcome = "ok" THEN [m EXCEPT !.fitted_result = NewFit] ELSE m

\* mutant: the handler catches ValueError only
Caught_OnlyValueError == {"ValueError"}

\* except (ValueError, RuntimeError)
Caught == {"ValueError", "RuntimeError"}

\* mutant: a failed fit clears the fit-result slot
TryFit_ClearsOnError(m, outcome) ==
    [model |-> IF outcome = "ok" THEN Fit(m, outcome) ELSE [m EXCEPT !.fitted_result = NoFit],
     logged |-> outcome \in Caught,
     raised |-> IF outcome = "ok" \/ outcome \in Caught THEN "none" ELSE outcome]

\* try: res = m.fit()  except (ValueError, RuntimeError) as e: logger.debug(e)
\* model: the model afterwards; logged: the error went to the debug log;
\* raised: the error that left the try statement
TryFit(m, outcome) ==
    [model |-> Fit(m, outcome),
     logged |-> outcome \in Caught,
     raised |-> IF outcome = "ok" \/ outcome \in Caught THEN "none" ELSE outcome]

\* One loop of fit_all from position i on; skip: the loop passes over the
\* unacceptable models and counts them. run: the models, the calls of fit()
\* made (Python index and outcome), the Python indices logged, the error that
\* ended the handler, the count of models passed over.
RECURSIVE FitLoop(_, _, _, _)
FitLoop(run, i, outcomes, skip) ==
    IF i > Len(run.models) \/ run.raised # "none" THEN run
    ELSE IF skip /\ ~run.models[i].is_acceptable
    THEN FitLoop([run EXCEPT !.num_unacceptable = @ + 1], i + 1, outcomes, skip)
    ELSE IF run.models[i].kind \in {"synthesis", "profile"}
    THEN LET t == TryFit(run.models[i], outcomes[i])
         IN FitLoop([run EXCEPT
                        !.models[i] = t.model,
                        !.calls = Append(@, [i |-> i - 1, outcome |-> outcomes[i]]),
                        !.logged = IF t.logged THEN Append(@, i - 1) ELSE @,
                        !.raised = t.raised],
                    i + 1, outcomes, skip)
    ELSE FitLoop(run, i + 1, outcomes, skip)

\* fit_all: the acceptable models are fitted; when none is acceptable, all are
fit_all(models, outcomes) ==
    LET start == [models |-> models, calls |-> <<>>, logged |-> <<>>,
                  raised |-> "none", num_unacceptable |-> 0]
        first == FitLoop(start, 1, outcomes, TRUE)
    IN IF first.raised = "none" /\ first.num_unacceptable = Len(models)
       THEN FitLoop(first, 1, outcomes, FALSE)
       ELSE first

\* what a fit handler leaves behind for the observer; the handlers return None
FitTrace(op, run) ==
    [op |-> op, calls |-> run.calls, logged |-> run.logged, raised |-> run.raised,
     returned |-> [is_list |-> FALSE, failures |-> <<>>]]

\* The "Fit all" button. outcomes[i]: how fit() ends for the model at position
\* i, should it be called. (With no model to use for abundances the handler
\* first shows a message box, which is dismissed here.)
FitAll(outcomes) ==
    /\ outcomes \in [1..Len(spectral_models) -> FitOutcomes]
    /\ LET run == fit_all(spectral_models, outcomes)
       IN /\ spectral_models' = run.models
          /\ fit_trace' = FitTrace("fit_all", run)
    /\ UNCHANGED <<widgetVars, line_list, line_list_argsort_hashes,
                   session_spectral_model_conflicts, last, identity>>

\* The "Fit one" button; selected = 0: no row is selected
FitOne(selected, outcome) ==
    /\ selected \in 0..Len(spectral_models)
    /\ LET none == [models |-> spectral_models, calls |-> <<>>, logged |-> <<>>,
                    raised |-> "none", num_unacceptable |-> 0]
           t == TryFit(spectral_models[selected], outcome)
           run == IF selected = 0 THEN none
                  ELSE [none EXCEPT
                           !.models[selected] = t.model,
                           !.calls = <<[i |-> selected - 1, outcome |-> outcome]>>,
                           !.logged = IF t.logged THEN <<selected - 1>> ELSE <<>>,
                           !.raised = t.raised]
       IN /\ spectral_models' = run.models
          /\ fit_trace' = FitTrace("fit_one", run)
    /\ UNCHANGED <<widgetVars, line_list, line_list_argsort_hashes,
                   session_spectral_model_conflicts, last, identity>>

\* the check box of the first column: the model is (un)marked acceptable
SetAcceptable(row, value) ==
    /\ row \in 1..Len(spectral_models)
    /\ spectral_models' = [spectral_models EXCEPT ![row].is_acceptable = value]
    /\ fit_trace' = [NoFitTrace EXCEPT !.op = "setData"]
    /\ UNCHANGED <<widgetVars, line_list, line_list_argsort_hashes,
                   session_spectral_model_conflicts, last, identity>>

\* fit_all, seen from the tab: once the loops are through, the table is reset
\* (which clears the selection), the caches are refreshed and the plots redrawn
ClickFitAll(outcomes) ==
    /\ FitAll(outcomes)
    /\ LET run == IF fit_trace'.raised # "none" THEN Running(tab)
                  ELSE refresh_plots(
                           Running(refresh_cache(ProxyReset(tab, spectral_models'),
                                                 spectral_models')),
                           spectral_models', 0)
       IN /\ tab' = run.tab
          /\ tab_trace' = TabTrace("fit_all", run)

\* fit_one, seen from the tab: row is the table row selected (0: none); after
\* a fit that succeeded the cache is updated at the row and the plots redrawn
ClickFitOne(row, outcome) ==
    /\ row \in 0..Len(tab.proxy_rows)
    /\ FitOne(IF row = 0 THEN 0 ELSE tab.proxy_rows[row], outcome)
    /\ LET run == IF row = 0 \/ outcome # "ok" THEN Running(tab)
                  ELSE refresh_plots(update_cache(Running(tab), spectral_models', row),
                                     spectral_models', row)
       IN /\ tab' = run.tab
          /\ tab_trace' = TabTrace("fit_one", run)

\* SpectralModelsTableModel.setData on the check box of table row row, while
\* table row selected is selected (0: none): the model is (un)marked, the
\* cache updated at the row and the plots redrawn
CheckAcceptable(row, value, selected) ==
    /\ row \in 1..Len(tab.proxy_rows)
    /\ selected \in 0..Len(tab.proxy_rows)
    /\ SetAcceptable(tab.proxy_rows[row], value)
    /\ LET run == refresh_plots(update_cache(Running(tab), spectral_models', row),
                                spectral_models', selected)
       IN /\ tab' = run.tab
          /\ tab_trace' = TabTrace("setData", run)

\* the spectral models a session may hold when the tab is opened
FitVariants ==
    {[m EXCEPT !.is_acceptable = a, !.fitted_result = r] :
        m \in {ProfileFittingModel(<<1>>), SpectralSynthesisModel(<<2, 3>>)},
        a \in BOOLEAN,
        r \in {NoFit, FitResult(1, 0)}}

InitFit ==
    /\ line_list = LineListRead(<<1, 2, 3>>, FALSE)
    /\ line_list_argsort_hashes = ArgSort(HashColumn(line_list))
    /\ spectral_models \in UNION {[1..n -> FitVariants] : n \in 0..MaxFitModels}
    /\ session_spectral_model_conflicts
           = spectral_model_conflicts(spectral_models, line_list)
    /\ last = Ran("new", "none")
    /\ identity = <<>>
    /\ fit_trace = NoFitTrace
    /\ tab = PopulatedTab(spectral_models)
    /\ tab_trace = NoTabTrace
    /\ display = NoDisplay
    /\ exported = NoArchive
    /\ options = NewOptions
    /\ import_trace = NoImport
    /\ sort_trace = NoSort
    /\ balmer = NoDialogs
    /\ gesture = NoGesture

NextFit ==
    \/ \E outcomes \in [1..Len(spectral_models) -> FitOutcomes] : ClickFitAll(outcomes)
    \/ \E row \in 0..Len(tab.proxy_rows), outcome \in FitOutcomes :
           ClickFitOne(row, outcome)
    \/ \E row \in 1..Len(tab.proxy_rows), value \in BOOLEAN,
           selected \in 0..Len(tab.proxy_rows) : CheckAcceptable(row, value, selected)

SpecFit == InitFit /\ [][NextFit]_vars

\* ------------------------------------------------------------ claims: fits
\* the (1-based) positions of the models fit() was called on, and those of
\* the calls that succeeded
Called(trace) == {trace.calls[k].i + 1 : k \in 1..Len(trace.calls)}

Succeeded(trace) ==
    {trace.calls[k].i + 1 : k \in {k \in 1..Len(trace.calls) : trace.calls[k].outcome = "ok"}}

\* C7: a fit handler leaves the fit-result slot of every model whose fit
\* failed (and of every model it did not fit) exactly as it was; a slot
\* changes only by a fit that succeeded, and then to the whole new result.
C7_FailedFitKeepsSlot ==
    [][fit_trace'.op \in {"fit_one", "fit_all"} =>
          /\ Len(spectral_models') = Len(spectral_models)
          /\ \A i \in 1..Len(spectral_models) :
                 spectral_models'[i].fitted_result
                     = IF i \in Succeeded(fit_trace') THEN NewFit
                       ELSE spectral_models[i].fitted_result]_vars

\* "Fit one" failed on a model that had a fit result, and the result is there
C7_Witness ==
    /\ fit_trace.op = "fit_one"
    /\ Len(fit_trace.calls) = 1
    /\ fit_trace.calls[1].outcome \in FitErrors
    /\ spectral_models[fit_trace.calls[1].i + 1].fitted_result = FitResult(1, 0)

\* the models a bulk fit is to fit: the acceptable ones, or all when none is
PolicySubset(models) ==
    LET acceptable == {i \in 1..Len(models) : models[i].is_acceptable}
    IN IF acceptable = {} THEN 1..Len(models) ELSE acceptable

\* C8: whatever error a fit raises in a bulk fit, every model of the policy's
\* subset is still fitted and the results of the fits that succeeded are kept.
C8_BatchNeverAborts ==
    fit_trace.op = "fit_all" =>
        /\ PolicySubset(spectral_models) \subseteq Called(fit_trace)
        /\ \A i \in Succeeded(fit_trace) : spectral_models[i].fitted_result = NewFit

\* the Python indices of the calls of trace that ended in one of errors
FailedWith(trace, errors) ==
    LET failed == SelectSeq(trace.calls, LAMBDA c : c.outcome \in errors)
    IN [k \in 1..Len(failed) |-> failed[k].i]

C10_ExactlyPolicySubset ==
    fit_trace.op = "fit_all" =>
        [k \in 1..Len(fit_trace.calls) |-> fit_trace.calls[k].i]
            = Ascending(PolicySubset(spectral_models))

\* the same, for the bulk fits that no error ended
ExactlyPolicySubsetUnlessRaised ==
    (fit_trace.op = "fit_all" /\ fit_trace.raised = "none") =>
        [k \in 1..Len(fit_trace.calls) |-> fit_trace.calls[k].i]
            = Ascending(PolicySubset(spectral_models))

\* ------------------------------------------------------ the tab: measure_all
\* m._transition_indices: the Python indices of the model's transitions in
\* the line list
transition_indices(m, ll) ==
    [k \in 1..Len(m.transition_hashes) |->
        (CHOOSE i \in 1..Len(ll.rows) : ll.rows[i].hash = m.transition_hashes[k]) - 1]

RECURSIVE Concat(_)
Concat(seqs) == IF seqs = <<>> THEN <<>> ELSE Head(seqs) \o Concat(Tail(seqs))

\* 1000. * equivalent_width, kept as a product
Milli(ew) == IF ew = NaN THEN NaN ELSE 1000 * ew

\* the abundance the backend computes from one transition and its equivalent
\* width
AbundanceOf(row) == 100 * row.hash + row.ew \div 1000

\* rt.abundance_cog(photosphere, transitions): one abundance per transition
\* handed over, in their order
abundance_cog(transitions) == [k \in 1..Len(transitions) |-> AbundanceOf(transitions[k])]

\* the entries of s at the positions where mask holds
Masked(s, mask) == Keep(s, {k \in 1..Len(s) : mask[k]})

\* for index, abundance in zip(indices, abundances):
\*     models[index].metadata["fitted_result"][-1]["abundances"] = [abundance]
RECURSIVE WriteAbundances(_, _, _)
WriteAbundances(models, indices, abundances) ==
    IF indices = <<>> \/ abundances = <<>> THEN models
    ELSE WriteAbundances([models EXCEPT ![Head(indices)].fitted_result.abund = Head(abundances)],
                         Tail(indices), Tail(abundances))

\* measure_all up to the reset of the table. cog: how the call of the backend
\* ends ("ok" or the error it raises). models: the models afterwards; raised:
\* the error that ended the handler; cog_called, cog_transitions: the call of
\* the backend made, with the rows (transition, equivalent width) handed over.
measure_all(models, ll, cog) ==
    LET none == [models |-> models, raised |-> "none", cog_called |-> FALSE,
                 cog_transitions |-> <<>>]
        spectral_model_indices == Ascending1({i \in 1..Len(models) : models[i].kind = "profile"})
        P == Len(spectral_model_indices)
        profile(k) == models[spectral_model_indices[k]]
        equivalent_widths ==
            [k \in 1..P |-> IF profile(k).is_acceptable
                            THEN Milli(profile(k).fitted_result.ew) ELSE NaN]
        indices == Concat([k \in 1..P |-> transition_indices(profile(k), ll)])
        T == Len(indices)
        column == IF P = 1 THEN [k \in 1..T |-> equivalent_widths[1]] ELSE equivalent_widths
        transitions == [k \in 1..T |-> Row(ll.rows[indices[k] + 1].hash, column[k])]
        finite == [k \in 1..T |-> column[k] # NaN]
        handed == [none EXCEPT !.cog_called = TRUE,
                               !.cog_transitions = Masked(transitions, finite)]
    IN IF \E k \in 1..P : profile(k).is_acceptable /\ ~profile(k).fitted_result.present
       THEN [none EXCEPT !.raised = "KeyError"]
       ELSE IF P = 0 \/ \A k \in 1..P : equivalent_widths[k] = NaN
       THEN [none EXCEPT !.raised = "ValueError"]
       ELSE IF P # T /\ P # 1
       THEN [none EXCEPT !.raised = "ValueError"]
       ELSE IF cog # "ok"
       THEN [handed EXCEPT !.raised = cog]
       ELSE IF P # T
       THEN [handed EXCEPT !.raised = "IndexError"]
       ELSE [handed EXCEPT !.models =
                WriteAbundances(models, Masked(spectral_model_indices, finite),
                                abundance_cog(handed.cog_transitions))]

\* The "Measure all" button: measure_all, then the table is reset, the caches
\* are refreshed and the plots redrawn
MeasureAll(cog) ==
    LET m == measure_all(spectral_models, line_list, cog)
        run == IF m.raised # "none" THEN [Running(tab) EXCEPT !.raised = m.raised]
               ELSE refresh_plots(Running(refresh_cache(ProxyReset(tab, m.models), m.models)),
                                  m.models, 0)
    IN /\ spectral_models' = m.models
       /\ tab' = run.tab
       /\ tab_trace' = [TabTrace("measure_all", run) EXCEPT
                           !.cog_called = m.cog_called,
                           !.cog_transitions = m.cog_transitions]
       /\ fit_trace' = [NoFitTrace EXCEPT !.op = "measure_all"]
       /\ UNCHANGED <<widgetVars, line_list, line_list_argsort_hashes,
                      session_spectral_model_conflicts, last, identity>>

\* the spectral models a session may hold when the tab is opened: profile
\* models on one transition in every state of acceptability and fit, a
\* profile model on two transitions, a synthesis model
TabVariants ==
    {[ProfileFittingModel(<<1>>) EXCEPT !.is_acceptable = a, !.fitted_result = r] :
        a \in BOOLEAN, r \in {NoFit, FitResult(1, 0), FitResult(NaN, 0)}}
    \cup {[ProfileFittingModel(<<2, 3>>) EXCEPT
              !.is_acceptable = TRUE, !.fitted_result = FitResult(1, 0)],
          [SpectralSynthesisModel(<<2, 3>>) EXCEPT
              !.is_acceptable = TRUE, !.fitted_result = FitResult(1, 0)]}

InitTab ==
    /\ line_list = LineListRead(<<1, 2, 3>>, FALSE)
    /\ line_list_argsort_hashes = ArgSort(HashColumn(line_list))
    /\ spectral_models \in UNION {[1..n -> TabVariants] : n \in 0..MaxTabModels}
    /\ session_spectral_model_conflicts
           = spectral_model_conflicts(spectral_models, line_list)
    /\ last = Ran("new", "none")
    /\ identity = <<>>
    /\ fit_trace = NoFitTrace
    /\ tab = PopulatedTab(spectral_models)
    /\ tab_trace = NoTabTrace
    /\ display = NoDisplay
    /\ exported = NoArchive
    /\ options = NewOptions
    /\ import_trace = NoImport
    /\ sort_trace = NoSort
    /\ balmer = NoDialogs
    /\ gesture = NoGesture

\* the items of the filter box: "All" and the elements of the models
FilterItems(models) ==
    {"All"} \cup {ElementName(e) :
                     e \in UNION {unique_elements(models[i].transition_hashes) :
                                     i \in 1..Len(models)}}

\* an item of the filter box is picked
FilterChanged(text) ==
    /\ text \in FilterItems(spectral_models)
    /\ LET run == filter_combo_box_changed(Running(tab), spectral_models, text)
       IN /\ tab' = run.tab
          /\ tab_trace' = TabTrace("filter_combo_box_changed", run)
    /\ fit_trace' = [NoFitTrace EXCEPT !.op = "filter_combo_box_changed"]
    /\ UNCHANGED <<widgetVars, managerVars, identity>>

\* a row of the table is selected (selected_model_changed)
SelectionChanged(row) ==
    /\ row \in 1..Len(tab.proxy_rows)
    /\ LET run == refresh_plots(Running(tab), spectral_models, row)
       IN /\ tab' = run.tab
          /\ tab_trace' = TabTrace("selected_model_changed", run)
    /\ fit_trace' = [NoFitTrace EXCEPT !.op = "selected_model_changed"]
    /\ UNCHANGED <<widgetVars, managerVars, identity>>

\* the profile models the transitions dialog may add, as [kind, hashes]
DialogAdds ==
    {<<>>,
     <<[kind |-> "profile", hashes |-> <<1>>]>>,
     <<[kind |-> "profile", hashes |-> <<1>>], [kind |-> "profile", hashes |-> <<3>>]>>}

\* _check_for_spectral_models: with no model to use for the abundances a
\* message box is shown; on "Ok" the transitions dialog is run, where models
\* are added; closed by its button or its window ("close"), the dialog calls
\* its callbacks (the reset of the table, populate_widgets); dismissed by the
\* escape key ("escape"), it calls none. (The message box that
\* populate_widgets shows when the dialog added nothing is declined.)
check_for_spectral_models(run, models, reply, added, closing) ==
    IF \E i \in 1..Len(models) : models[i].use_for_stellar_composition_inference
       \/ reply # "Ok"
    THEN [run |-> run, models |-> models]
    ELSE LET shown == Extend(models, added)
         IN [run |-> IF closing = "close"
                     THEN refresh_table([run EXCEPT !.tab = ProxyReset(@, shown)], shown)
                     ELSE run,
             models |-> shown]

\* populate_widgets, called when a session is loaded or its models changed
PopulateWidgets(reply, added, closing) ==
    /\ Len(spectral_models) + Len(added) <= MaxTabModels
    /\ LET checked == check_for_spectral_models(Running(tab), spectral_models,
                                                reply, added, closing)
           run == refresh_table(checked.run, checked.models)
       IN /\ spectral_models' = checked.models
          /\ session_spectral_model_conflicts'
                 = spectral_model_conflicts(checked.models, line_list)
          /\ tab' = run.tab
          /\ tab_trace' = [TabTrace("populate_widgets", run) EXCEPT
                              !.added = Len(checked.models) - Len(spectral_models)]
    /\ fit_trace' = [NoFitTrace EXCEPT !.op = "populate_widgets"]
    /\ UNCHANGED <<widgetVars, line_list, line_list_argsort_hashes, last, identity>>

\* The transitions dialog run with callbacks that do not reach this tab
\* (callbacks=None), or dismissed by the escape key: models are added to the
\* session, the table and the caches of the tab are left as they are.
TransitionsDialogAdds(added) ==
    /\ added # <<>>
    /\ Len(spectral_models) + Len(added) <= MaxTabModels
    /\ spectral_models' = Extend(spectral_models, added)
    /\ session_spectral_model_conflicts'
           = spectral_model_conflicts(spectral_models', line_list)
    /\ tab_trace' = [NoTabTrace EXCEPT !.op = "TransitionsDialog", !.added = Len(added)]
    /\ fit_trace' = [NoFitTrace EXCEPT !.op = "TransitionsDialog"]
    /\ UNCHANGED <<widgetVars, line_list, line_list_argsort_hashes, last, identity, tab>>

NextTab ==
    \/ \E added \in DialogAdds : TransitionsDialogAdds(added)
    \/ \E cog \in {"ok", "RTError"} : MeasureAll(cog)
    \/ \E row \in 0..Len(tab.proxy_rows) : ClickFitOne(row, "ok")
    \/ \E row \in 1..Len(tab.proxy_rows), value \in BOOLEAN,
          selected \in 0..Len(tab.proxy_rows) :
            CheckAcceptable(row, value, selected)
    \/ \E text \in {"All", "E0", "E1"} : FilterChanged(text)
    \/ \E row \in 1..MaxTabModels + 1 : SelectionChanged(row)
    \/ \E reply \in {"Ok", "Cancel"}, added \in DialogAdds,
          closing \in {"close", "escape"} :
            PopulateWidgets(reply, added, closing)

SpecTab == InitTab /\ [][NextTab]_vars

\* ------------------------------------------------- claims about measure_all
\* the model has no finite equivalent width: it was never fitted, or its
\* latest fit measured none
NonFiniteWidth(m) == ~m.fitted_result.present \/ m.fitted_result.ew = NaN

\* the profile models measure_all takes the equivalent width of
FiniteProfiles(models) ==
    {i \in 1..Len(models) : /\ models[i].kind = "profile"
                            /\ models[i].is_acceptable
                            /\ ~NonFiniteWidth(models[i])}

\* the hashes of the transitions handed to the backend
HandedHashes(trace) == {trace.cog_transitions[k].hash : k \in 1..Len(trace.cog_transitions)}

MeasureAllSkips ==
    tab_trace'.op = "measure_all" =>
        /\ \A i \in 1..Len(spectral_models) :
              (spectral_models[i].kind = "profile" /\ NonFiniteWidth(spectral_models[i])) =>
                  /\ \A k \in 1..Len(spectral_models[i].transition_hashes) :
                        spectral_models[i].transition_hashes[k] \in HandedHashes(tab_trace') =>
                            \E j \in FiniteProfiles(spectral_models) :
                                spectral_models[i].transition_hashes[k]
                                    \in Range(spectral_models[j].transition_hashes)
                  /\ spectral_models'[i].fitted_result = spectral_models[i].fitted_result
        /\ (/\ FiniteProfiles(spectral_models) # {}
            /\ \E i \in 1..Len(spectral_models) :
                  spectral_models[i].kind = "profile" /\ NonFiniteWidth(spectral_models[i]))
               => tab_trace'.raised \in {"none", "RTError"}

\* C11: measure_all skips a profile model whose equivalent width is not
\* finite, a model without a fit result included: its transitions are not
\* handed to abundance_cog, its abundance stays as it was, and the handler
\* still completes for the other models (it ends with no error but one the
\* backend raised whenever some profile model has a finite equivalent width).
C11_NonFiniteSkipped == [][MeasureAllSkips]_vars

\* the abundances the backend computes from the transitions of model m and
\* the equivalent width measure_all takes of it
OwnAbundances(m) ==
    {AbundanceOf(Row(m.transition_hashes[k], Milli(m.fitted_result.ew))) :
        k \in 1..Len(m.transition_hashes)}

MeasureAllAligned ==
    (tab_trace'.op = "measure_all" /\ tab_trace'.raised # "RTError") =>
        \A i \in FiniteProfiles(spectral_models) :
            spectral_models'[i].fitted_result.abund \in OwnAbundances(spectral_models[i])

\* C12: measure_all writes the results back index-aligned: unless the backend
\* itself fails, every profile model with a finite equivalent width ends up
\* with the abundance the backend computed from that model's own transition
\* and equivalent width, whatever the mix of profile models (on one or on
\* several transitions), synthesis models and non-finite entries in the list.
C12_IndexAligned == [][MeasureAllAligned]_vars

\* ------------------------------------------------ claims about refresh_cache
\* the handlers that end with the caches as refresh_cache built them
RefreshOps == {"filter_combo_box_changed", "populate_widgets", "measure_all", "fit_all"}

Refreshed == tab_trace.op \in RefreshOps /\ tab_trace.raised = "none"

\* the model has a fit result the table prints a reduced equivalent width and
\* an abundance of
UsableFit(m) ==
    /\ m.fitted_result.present
    /\ m.kind = "profile"
    /\ m.fitted_result.ew # NaN
    /\ m.fitted_result.abund # 0

\* the entry of both caches at position r is the one of model m
EntryOf(r, m) ==
    IF UsableFit(m)
    THEN /\ tab.rew_cache[r] = ReducedEquivalentWidth(m.fitted_result.ew,
                                                      Wavelength(m.transition_hashes[1]))
         /\ tab.abund_cache[r] = m.fitted_result.abund
    ELSE tab.rew_cache[r] = NaN /\ tab.abund_cache[r] = NaN

\* C13 as stated: refresh_cache leaves both caches with one entry per model
\* of the model list, entry i being the one of the model at position i (NaN
\* when that model lacks a usable fit result).
C13_OneEntryPerModel ==
    Refreshed =>
        /\ Len(tab.rew_cache) = Len(spectral_models)
        /\ Len(tab.abund_cache) = Len(spectral_models)
        /\ \A i \in 1..Len(spectral_models) : EntryOf(i, spectral_models[i])

\* C13 amended: refresh_cache leaves both caches with one entry per row of the
\* filtered table, in table order: the rows are the models the current
\* filters accept, in the order of the model list, and entry r is the one of
\* the model shown in row r (NaN in both caches when that model lacks a
\* usable fit result); the refresh itself raises nothing.
C13_OneEntryPerRow ==
    Refreshed =>
        /\ Len(tab.rew_cache) = Len(tab.proxy_rows)
        /\ Len(tab.abund_cache) = Len(tab.proxy_rows)
        /\ tab.proxy_rows
               = Ascending1({i \in 1..Len(spectral_models) :
                                \A f \in tab.filters : FilterAccepts(f, spectral_models[i])})
        /\ \A r \in 1..Len(tab.proxy_rows) : EntryOf(r, spectral_models[tab.proxy_rows[r]])

\* a filter hides the first model, and the only entry of the caches is the
\* one of the second model, which has a usable fit result
C13_Witness ==
    /\ tab_trace.op = "filter_combo_box_changed"
    /\ Len(spectral_models) = 2
    /\ tab.proxy_rows = <<2>>
    /\ UsableFit(spectral_models[2])
    /\ tab.rew_cache # <<NaN>>

\* ------------------------------------------- claims about the use of caches
\* C14: in every sequence of events of the tab the caches are refreshed
\* before they are next accessed by row: at every access by row that
\* update_cache and update_selected_points_plot make, the length of the
\* caches is the number of rows the table shows, no access is out of range,
\* and between handlers both caches have one entry per row of the table;
\* so also when fit_one or a change of selection comes after models were
\* added through the transitions dialog and before any refresh.
C14_CachesMatchRows ==
    /\ \A k \in 1..Len(tab_trace.accesses) :
          /\ tab_trace.accesses[k].len = tab_trace.accesses[k].rows
          /\ tab_trace.accesses[k].row <= tab_trace.accesses[k].len
    /\ Len(tab.rew_cache) = Len(tab.proxy_rows)
    /\ Len(tab.abund_cache) = Len(tab.proxy_rows)

\* fit_one has accessed the caches at the selected row while the session
\* holds models, added through the dialog, that the table does not show yet
C14_Witness ==
    /\ tab_trace.op = "fit_one"
    /\ tab_trace.accesses # <<>>
    /\ tab.filters = {}
    /\ Len(tab.proxy_rows) < Len(spectral_models)

\* ------------------------------------------------- masks of a spectral model
\* The mask of the selected model: spectral_model.metadata["mask"], a list of
\* [s, e] in the order the intervals were added.
Interval(s, e) == [s |-> s, e |-> e]

Min(a, b) == IF a <= b THEN a ELSE b

Max(a, b) == IF a >= b THEN a ELSE b

\* the sequence without its entry at position i
DeleteAt(seq, i) == [k \in 1..Len(seq) - 1 |-> IF k < i THEN seq[k] ELSE seq[k + 1]]

\* for i, (s, e) in enumerate(mask[::-1]): if e >= xdata >= s: the position in
\* mask of the first match of the reversed list (0: no interval matches)
LatestMatch(mask, xdata) ==
    LET matches == {k \in 1..Len(mask) : mask[k].e >= xdata /\ xdata >= mask[k].s}
    IN IF matches = {} THEN 0 ELSE CHOOSE k \in matches : \A j \in matches : j <= k

\* what a handler of the display leaves behind: the mask before, the
\* wavelength pointed at, whether an interval was found, the error raised
Shown(d, op, xdata, mask, found, raised) ==
    [d EXCEPT !.mask = mask, !.op = op, !.pre = d.mask, !.xdata = xdata,
              !.found = found, !.raised = raised]

\* what the handlers of a spectrum display leave alone
aroundDisplay ==
    <<managerVars, identity, fit_trace, tab, tab_trace, exported, options, import_trace, sort_trace, gesture, balmer>>

\* SMHSpecDisplay: a click at x0 and a release at x1 add the interval
\* [min, max]; a click with the shift key in the other state than the antimask
\* flag first clears the mask and flips the flag
SpectrumLeftMouseDrag(x0, x1, shift) ==
    LET flipped == display.antimask_flag # shift
        cleared == IF flipped THEN <<>> ELSE display.mask
    IN /\ x0 # x1
       /\ Len(cleared) < MaxMasks
       /\ display' = [Shown(display, "spectrum_left_mouse_release", x1,
                            Append(cleared, Interval(Min(x0, x1), Max(x0, x1))),
                            FALSE, "none")
                        EXCEPT !.antimask_flag = shift]
       /\ UNCHANGED aroundDisplay

\* SMHSpecDisplay._remove_mask(selected_model, event): its body reads the name
\* spectral_model, which is not defined in it (the parameter is
\* selected_model) nor in the module: NameError
remove_mask(mask, xdata) ==
    [mask |-> mask, returned |-> FALSE, raised |-> "NameError"]

\* SMHSpecDisplay.spectrum_left_mouse_press on a double click
SpectrumLeftMouseDoubleClick(xdata) ==
    LET r == remove_mask(display.mask, xdata)
    IN /\ display' = Shown(display, "_remove_mask", xdata, r.mask, r.returned, r.raised)
       /\ UNCHANGED aroundDisplay

\* ChemicalAbundancesTab.spectrum_axis_mouse_release: the interval is added
\* as dragged, [x0, x1]
SpectrumAxisMouseDrag(x0, x1) ==
    /\ x0 # x1
    /\ Len(display.mask) < MaxMasks
    /\ display' = Shown(display, "spectrum_axis_mouse_release", x1,
                        Append(display.mask, Interval(x0, x1)), FALSE, "none")
    /\ UNCHANGED aroundDisplay

\* ChemicalAbundancesTab.spectrum_axis_mouse_press on a double click: the
\* latest interval that holds the wavelength is deleted
SpectrumAxisMouseDoubleClick(xdata) ==
    LET k == LatestMatch(display.mask, xdata)
    IN /\ display' = Shown(display, "spectrum_axis_mouse_press", xdata,
                           IF k = 0 THEN display.mask ELSE DeleteAt(display.mask, k),
                           k # 0, "none")
       /\ UNCHANGED aroundDisplay

Wavelengths == 1..MaxWavelength

InitMask ==
    /\ line_list = LineListRead(<<1, 2, 3>>, FALSE)
    /\ line_list_argsort_hashes = ArgSort(HashColumn(line_list))
    /\ spectral_models = <<ProfileFittingModel(<<1>>)>>
    /\ session_spectral_model_conflicts
           = spectral_model_conflicts(spectral_models, line_list)
    /\ last = Ran("new", "none")
    /\ identity = <<>>
    /\ fit_trace = NoFitTrace
    /\ tab = NewTab
    /\ tab_trace = NoTabTrace
    /\ display = NoDisplay
    /\ exported = NoArchive
    /\ options = NewOptions
    /\ import_trace = NoImport
    /\ sort_trace = NoSort
    /\ balmer = NoDialogs
    /\ gesture = NoGesture

NextMask ==
    \/ \E x0 \in Wavelengths, x1 \in Wavelengths, shift \in BOOLEAN :
          SpectrumLeftMouseDrag(x0, x1, shift)
    \/ \E xdata \in Wavelengths : SpectrumLeftMouseDoubleClick(xdata)
    \/ \E x0 \in Wavelengths, x1 \in Wavelengths : SpectrumAxisMouseDrag(x0, x1)
    \/ \E xdata \in Wavelengths : SpectrumAxisMouseDoubleClick(xdata)

SpecMask == InitMask /\ [][NextMask]_vars

\* ------------------------------------------------------- claims about masks
\* the positions of the intervals of mask with s <= xdata <= e
Containing(mask, xdata) == {k \in 1..Len(mask) : mask[k].s <= xdata /\ xdata <= mask[k].e}

\* C15: a removal of the mask at a wavelength (a double click) searches the
\* mask list latest-added first: when some interval [s, e] has
\* s <= wavelength <= e, exactly the latest-added such interval is removed, the
\* others stay in place and in order, and the removal reports true; when none
\* has, it reports false and the mask list is unchanged.
C15_RemovesLatestContaining ==
    display.op \in {"_remove_mask", "spectrum_axis_mouse_press"} =>
        LET matches == Containing(display.pre, display.xdata)
        IN /\ display.raised = "none"
           /\ display.found = (matches # {})
           /\ IF matches = {} THEN display.mask = display.pre
              ELSE display.mask
                      = DeleteAt(display.pre, CHOOSE k \in matches : \A j \in matches : j <= k)

\* --------------------------------------------------- export of spectral models
\* spectral_model.__getstate__(): the class, the transition hashes and the
\* metadata (the configuration, the acceptability flag and, once fitted, the
\* fit result)
getstate(m) ==
    LET metadata == [window |-> m.config.window,
                     continuum_order |-> m.config.continuum_order,
                     mask |-> m.config.mask,
                     is_acceptable |-> m.is_acceptable]
    IN [kind |-> m.kind, hashes |-> m.transition_hashes,
        metadata |-> IF m.fitted_result.present
                     THEN [k \in DOMAIN metadata \cup {"fitted_result"} |->
                              IF k = "fitted_result" THEN m.fitted_result ELSE metadata[k]]
                     ELSE metadata]

\* state["metadata"].pop(key, None)
Pop(state, key) ==
    [state EXCEPT !.metadata = [k \in DOMAIN state.metadata \ {key} |-> state.metadata[k]]]

\* mutant: the fit result stays in the exported state
Clean_KeepsFit(state) == Pop(state, "is_acceptable")

\* the deep, clean copy of a state: without fit result and acceptability
Clean(state) == Pop(Pop(state, "fitted_result"), "is_acceptable")

\* export_selected_spectral_models, the file being chosen: the states of the
\* selected models (selected: their 1-based rows, in the order of the
\* selection), cleaned, and the rows of the line list at the models'
\* transition indices
export_selected_spectral_models(models, ll, selected) ==
    LET spectral_model_states == [k \in 1..Len(selected) |-> Clean(getstate(models[selected[k]]))]
        indices == Concat([k \in 1..Len(selected) |->
                              transition_indices(models[selected[k]], ll)])
    IN [line_list_subset |-> [k \in 1..Len(indices) |-> ll.rows[indices[k] + 1]],
        spectral_model_states |-> spectral_model_states]

\* the orders in which rows of a table of n rows may be selected
SelectionOrders(n) ==
    {sel \in UNION {[1..k -> 1..n] : k \in 0..n} :
        \A i \in 1..Len(sel), j \in 1..Len(sel) : i # j => sel[i] # sel[j]}

\* what the handlers of the export leave alone
aroundExport == <<last, identity, fit_trace, tab, tab_trace, display, options, import_trace, sort_trace,
     gesture, balmer>>

\* The "Export" entry of the menu of the models table. models: the selected
\* models as they were, for the observer.
ExportSelectedSpectralModels(selected) ==
    /\ selected \in SelectionOrders(Len(spectral_models))
    /\ LET pair == export_selected_spectral_models(spectral_models, line_list, selected)
       IN exported' = [op |-> "export", written |-> TRUE,
                       line_list_subset |-> pair.line_list_subset,
                       spectral_model_states |-> pair.spectral_model_states,
                       models |-> [k \in 1..Len(selected) |-> spectral_models[selected[k]]],
                       N |-> 0]
    /\ UNCHANGED <<line_list, line_list_argsort_hashes, spectral_models,
                   session_spectral_model_conflicts, aroundExport>>

\* TransitionsDialog.import_transitions on the exported file
ImportExported ==
    /\ exported.written
    /\ Len(spectral_models) + Len(exported.spectral_model_states) <= 2 * MaxExportModels
    /\ LET file == [line_list |-> [isset |-> TRUE, has_ew |-> line_list.has_ew,
                                   rows |-> exported.line_list_subset],
                    states |-> exported.spectral_model_states]
           got == SessionImportTransitions(line_list, spectral_models, file)
       IN /\ got.err = "none"
          /\ line_list' = got.line_list
          /\ line_list_argsort_hashes' = ArgSort(HashColumn(got.line_list))
          /\ spectral_models' = got.spectral_models
          /\ session_spectral_model_conflicts'
                 = IF got.N > 0
                   THEN spectral_model_conflicts(got.spectral_models, got.line_list)
                   ELSE session_spectral_model_conflicts
          /\ exported' = [exported EXCEPT !.op = "import", !.N = got.N]
    /\ UNCHANGED aroundExport

\* "{}".format(hash): the hash as text
Format(h) == <<"str", h>>

\* TransitionsDialog.save_as_default: the states of all models, cleaned and
\* with their transition hashes as text, become the default models (the line
\* list goes to a file of its own; nothing is written for an import)
SaveAsDefault ==
    /\ exported' = [op |-> "save_as_default", written |-> FALSE,
                    line_list_subset |-> line_list.rows,
                    spectral_model_states |->
                        [k \in 1..Len(spectral_models) |->
                            [Clean(getstate(spectral_models[k])) EXCEPT
                                !.hashes = [i \in 1..Len(@) |-> Format(@[i])]]],
                    models |-> spectral_models,
                    N |-> 0]
    /\ UNCHANGED <<line_list, line_list_argsort_hashes, spectral_models,
                   session_spectral_model_conflicts, aroundExport>>

\* another session is opened, with no line list and no spectral models
NewSession ==
    /\ spectral_models # <<>>
    /\ line_list' = NoLineList
    /\ line_list_argsort_hashes' = <<>>
    /\ spectral_models' = <<>>
    /\ session_spectral_model_conflicts' = <<>>
    /\ exported' = [exported EXCEPT !.op = "new session"]
    /\ UNCHANGED aroundExport

\* the configurations, fits and flags of the models exported from
ExportVariants ==
    {[SpectralModel(kind, hs) EXCEPT !.config = c, !.is_acceptable = a, !.fitted_result = r] :
        kind \in {"profile"}, hs \in {<<1>>, <<2, 3>>},
        c \in {DefaultConfig, [window |-> 2, continuum_order |-> 0, mask |-> <<Interval(1, 2)>>]},
        a \in BOOLEAN, r \in {NoFit, FitResult(1, 0)}}
    \cup {[SpectralSynthesisModel(<<2, 3>>) EXCEPT
              !.is_acceptable = TRUE, !.fitted_result = FitResult(1, 0)]}

InitExport ==
    /\ line_list = LineListRead(<<1, 2, 3>>, FALSE)
    /\ line_list_argsort_hashes = ArgSort(HashColumn(line_list))
    /\ spectral_models \in UNION {[1..n -> ExportVariants] : n \in 1..MaxExportModels}
    /\ session_spectral_model_conflicts
           = spectral_model_conflicts(spectral_models, line_list)
    /\ last = Ran("new", "none")
    /\ identity = <<>>
    /\ fit_trace = NoFitTrace
    /\ tab = NewTab
    /\ tab_trace = NoTabTrace
    /\ display = NoDisplay
    /\ exported = NoArchive
    /\ options = NewOptions
    /\ import_trace = NoImport
    /\ sort_trace = NoSort
    /\ balmer = NoDialogs
    /\ gesture = NoGesture

NextExport ==
    \/ \E selected \in SelectionOrders(MaxExportModels) : ExportSelectedSpectralModels(selected)
    \/ ImportExported
    \/ SaveAsDefault
    \/ NewSession

SpecExport == InitExport /\ [][NextExport]_vars

\* ------------------------------------------------- claims about the export
\* the state holds neither a fit result nor an acceptability flag
Stripped(state) ==
    /\ "fitted_result" \notin DOMAIN state.metadata
    /\ "is_acceptable" \notin DOMAIN state.metadata

\* the state holds the transition hashes and the configuration of model m
StateOf(state, m) ==
    /\ state.kind = m.kind
    /\ state.hashes = m.transition_hashes
    /\ state.metadata.window = m.config.window
    /\ state.metadata.continuum_order = m.config.continuum_order
    /\ state.metadata.mask = m.config.mask

\* the model imported has the transition hashes and the configuration of m
ReproducedFrom(imported, m) ==
    /\ imported.kind = m.kind
    /\ imported.transition_hashes = m.transition_hashes
    /\ imported.config = m.config

Traced(filenames, ignore_conflicts) ==
    import_trace' = [imported |-> UNION {Range(HashColumn(filenames[i])) :
                                            i \in 1..Len(filenames)},
                     ignore_conflicts |-> ignore_conflicts]

\* what the imports leave alone
aroundImport ==
    <<identity, fit_trace, tab, tab_trace, display, exported, options, sort_trace, gesture, balmer>>

NextImport ==
    \/ \E f \in Filenames, c \in BOOLEAN :
          ImportFromFilename(f, c) /\ Traced(f, c) /\ UNCHANGED aroundImport
    \/ \E f \in Filenames, c \in BOOLEAN :
          AddImportedLinesAsProfileModels(f, c) /\ Traced(f, c) /\ UNCHANGED aroundImport
    \/ \E f \in Filenames, c \in BOOLEAN, p \in BOOLEAN :
          AddImportedLinesAsSynthesisModel(f, c, p) /\ Traced(f, c)
              /\ UNCHANGED aroundImport
    \/ \E f \in Filenames :
          ImportTransitionsWithMeasuredEquivalentWidths(f) /\ Traced(f, FALSE)
              /\ UNCHANGED aroundImport

SpecImport == InitManager /\ [][NextImport]_vars

\* ------------------------------------------------- claims about the imports
ImportOps ==
    {"import_from_filename", "add_imported_lines_as_profile_models",
     "add_imported_lines_as_synthesis_model",
     "import_transitions_with_measured_equivalent_widths"}

\* rows i and j of the line list share wavelength and species and differ
Conflicting(rows, i, j) ==
    /\ rows[i].hash # rows[j].hash
    /\ Wavelength(rows[i].hash) = Wavelength(rows[j].hash)
    /\ Element(rows[i].hash) = Element(rows[j].hash)

ImportRejectsAtomically ==
    last'.op \in ImportOps =>
        /\ last'.err = "ConflictError" =>
              /\ ~import_trace'.ignore_conflicts
              /\ line_list' = line_list
              /\ line_list_argsort_hashes' = line_list_argsort_hashes
              /\ spectral_models' = spectral_models
        /\ (last'.err = "none" /\ ~import_trace'.ignore_conflicts) =>
              \A i \in 1..Len(line_list'.rows), j \in 1..Len(line_list'.rows) :
                  Conflicting(line_list'.rows, i, j) =>
                      i <= Len(line_list.rows) /\ j <= Len(line_list.rows)
        /\ (last'.err = "none" /\ import_trace'.ignore_conflicts) =>
              import_trace'.imported \cup Range(HashColumn(line_list))
                  \subseteq Range(HashColumn(line_list'))

\* C17: when an import merges line lists of which two transitions share
\* wavelength and species but differ otherwise, the merge raises ConflictError
\* unless the import ignores conflicts, and then both transitions are kept;
\* when ConflictError is raised, the session's line list, hash index and model
\* list are as they were before the import.
C17_ConflictRejectedAtomically == [][ImportRejectsAtomically]_vars

\* an import into a session that holds a line list and a model was rejected
\* with ConflictError
C17_Witness ==
    /\ last.op \in ImportOps
    /\ last.err = "ConflictError"
    /\ ~import_trace.ignore_conflicts
    /\ line_list.rows # <<>>
    /\ spectral_models # <<>>
    /\ \E h \in import_trace.imported, i \in 1..Len(line_list.rows) :
          /\ h # line_list.rows[i].hash
          /\ Wavelength(h) = Wavelength(line_list.rows[i].hash)
          /\ Element(h) = Element(line_list.rows[i].hash)

\* C20: after any sequence of imports of line lists (plain, for profile or
\* synthesis models, of pre-measured transitions; the same file twice
\* included) every hash occurs at most once in the session's line list.
C20_HashesUnique ==
    \A i \in 1..Len(line_list.rows), j \in 1..Len(line_list.rows) :
        line_list.rows[i].hash = line_list.rows[j].hash => i = j

\* ------------------------------------------- the sorts of the line list table
\* what the observer keeps of a sort: the column and the order asked for, and
\* the rows before it
SortTraced(column, descending) ==
    sort_trace' = [column |-> column, descending |-> descending,
                   pre |-> line_list.rows]

\* what the sorts leave alone
aroundSort ==
    <<identity, fit_trace, tab, tab_trace, display, exported, options, import_trace, gesture, balmer>>

NextSort ==
    \/ \E f \in Filenames, c \in BOOLEAN :
          ImportFromFilename(f, c) /\ UNCHANGED <<aroundSort, sort_trace>>
    \/ \E c \in 1..Len(columns), d \in BOOLEAN :
          LineListSort(columns[c], d) /\ SortTraced(columns[c], d)
              /\ UNCHANGED aroundSort

SpecSort == InitManager /\ [][NextSort]_vars

\* --------------------------------------------------- claims about the sorts
Count(rows, r) == Cardinality({i \in 1..Len(rows) : rows[i] = r})

SameTransitions(pre, post) ==
    /\ Len(pre) = Len(post)
    /\ \A r \in Range(pre) \cup Range(post) : Count(pre, r) = Count(post, r)

OrderedBy(rows, column, descending) ==
    \A i \in 1..Len(rows), j \in 1..Len(rows) :
        i < j => IF descending
                 THEN ColumnValue(column, rows[i].hash) >= ColumnValue(column, rows[j].hash)
                 ELSE ColumnValue(column, rows[i].hash) <= ColumnValue(column, rows[j].hash)

\* two rows of pre with equal values of the column are in post in the order
\* they have in pre
TiesKeepOrder(pre, post, column) ==
    \A i \in 1..Len(pre), j \in 1..Len(pre) :
        (/\ i < j
         /\ pre[i] # pre[j]
         /\ ColumnValue(column, pre[i].hash) = ColumnValue(column, pre[j].hash))
            => \A k \in 1..Len(post), l \in 1..Len(post) :
                   (post[k] = pre[i] /\ post[l] = pre[j]) => k < l

SortIsStable ==
    last'.op = "LineListTableModel.sort" =>
        /\ SameTransitions(line_list.rows, line_list'.rows)
        /\ OrderedBy(line_list'.rows, sort_trace'.column, sort_trace'.descending)
        /\ TiesKeepOrder(line_list.rows, line_list'.rows, sort_trace'.column)

\* C19: a sort of the line list by a field, ascending or descending, keeps
\* exactly the same transitions, orders them by the field in the direction
\* asked for, and keeps transitions of equal value of the field in the
\* relative order they had before the sort.
C19_SortStable == [][SortIsStable]_vars

\* ------------------------------------------------- the bounds a user edits
\* what a user types in a cell: a number, inf, -inf, nan, or a text float()
\* does not take
Finite(n) == [kind |-> "finite", v |-> n]

Floats ==
    {Finite(n) : n \in 0..MaxBoundValue}
        \cup {[kind |-> k, v |-> 0] : k \in {"inf", "-inf", "nan"}}

Texts == Floats \cup {[kind |-> "text", v |-> 0]}

isfinite(x) == x.kind = "finite"

\* x >= b and x <= b for a float x and a finite b
GE(x, b) == x.kind = "inf" \/ (x.kind = "finite" /\ x.v >= b)

LE(x, b) == x.kind = "-inf" \/ (x.kind = "finite" /\ x.v <= b)

\* "c{}".format(i) for i in range(1 + N)
CNames == <<"c0", "c1", "c2", "c3">>

\* dict.setdefault(key, default)
setdefault(dict, key, default) ==
    IF key \in DOMAIN dict THEN dict ELSE (key :> default) @@ dict

\* BalmerLineOptionsTableModel.setData(index, value, role) at row, column
\* (0-based); N, is_ok: what the input dialog of the continuum order returns
setData(o, row, column, value, N, is_ok) ==
    LET parameter == o._parameters[row + 1]
        done(opts, returned, raised) ==
            [opts EXCEPT !.op = "setData", !.parameter = parameter,
                         !.column = column, !.returned = returned,
                         !.raised = raised,
                         !.typed = IF column = 0 THEN [kind |-> "check", v |-> 0]
                                   ELSE value]
    IN IF column = 0
       THEN IF row = 2
            THEN IF value
                 THEN IF ~is_ok \/ N > MaxContinuumOrder
                      THEN done(o, FALSE, "none")
                      ELSE done([o EXCEPT
                                    !._parameters = @ \o SubSeq(CNames, 1, 1 + N),
                                    !.metadata.continuum_order = <<N>>,
                                    !.metadata.continuum = TRUE], TRUE, "none")
                 ELSE done([o EXCEPT !._parameters = SubSeq(@, 1, 3),
                                     !.metadata.continuum = FALSE], TRUE, "none")
            ELSE done([o EXCEPT !.metadata[parameter] = value], TRUE, "none")
       ELSE LET with == [o EXCEPT !.metadata.bounds
                                      = setdefault(@, parameter, <<None, None>>)]
                bounds == with.metadata.bounds[parameter]
            IN IF value.kind = "text" THEN done(with, FALSE, "none")
               ELSE IF \/ column = 1 /\ bounds[2].set /\ GE(value, bounds[2].v)
                       \/ column = 2 /\ bounds[1].set /\ LE(value, bounds[1].v)
               THEN done(with, FALSE, "ValueError")
               ELSE IF ~isfinite(value) THEN done(with, FALSE, "none")
               ELSE done([with EXCEPT !.metadata.bounds[parameter][column]
                                          = Bound(value.v)], TRUE, "none")

\* BalmerLineOptionsTableModel.flags: the cell can be edited
flags(o, row, column) ==
    IF column = 0 THEN row < 3
    ELSE IF row > 2 THEN TRUE ELSE o.metadata[o._parameters[row + 1]]

\* what the edits of options leave alone
aroundOptions ==
    <<line_list, line_list_argsort_hashes, session_spectral_model_conflicts, last,
      identity, fit_trace, tab, tab_trace, display, exported, import_trace,
      sort_trace, gesture, balmer>>

Edited(o) == [o EXCEPT !.edits = options.edits + 1]

\* the check box of a row is set to value: by a click, which hands over the
\* other state, or by a caller of setData, which hands over any
CheckOption(row, value, N, is_ok) ==
    /\ options.edits < MaxEdits
    /\ row \in 0..Len(options._parameters) - 1
    /\ flags(options, row, 0)
    /\ options' = Edited(setData(options, row, 0, value, N, is_ok))
    /\ UNCHANGED <<aroundOptions, spectral_models>>

\* a text typed in the cell of a lower (column 1) or upper (column 2) bound
EditBound(row, column, text) ==
    /\ options.edits < MaxEdits
    /\ row \in 0..Len(options._parameters) - 1
    /\ flags(options, row, column)
    /\ options' = Edited(setData(options, row, column, text, 0, FALSE))
    /\ UNCHANGED <<aroundOptions, spectral_models>>

\* ChemicalAbundancesTab.update_smoothing_bound: the text of the line edit
\* (its validator lets numbers from 0 and unfinished texts through) becomes
\* the limits (-value, value) of the selected model, which is fitted when
\* the box "auto fit" is checked
UpdateSmoothingBound(text, auto_fit, outcome) ==
    LET o == [options EXCEPT !.op = "update_smoothing_bound",
                             !.parameter = "sigma_smooth", !.column = 0,
                             !.returned = FALSE, !.typed = text]
    IN /\ options.edits < MaxEdits
       /\ text.kind \in {"finite", "text"}
       /\ IF text.kind = "text"
          THEN /\ options' = Edited([o EXCEPT !.raised = "ValueError"])
               /\ UNCHANGED spectral_models
          ELSE /\ options' = Edited([o EXCEPT
                                        !.sigma_smooth = <<Bound(-text.v), Bound(text.v)>>,
                                        !.raised = IF auto_fit /\ outcome # "ok"
                                                   THEN outcome ELSE "none"])
               /\ spectral_models' = IF auto_fit
                                     THEN [spectral_models EXCEPT ![1] = Fit(@, outcome)]
                                     ELSE spectral_models
       /\ UNCHANGED aroundOptions

InitOptions ==
    /\ line_list = LineListRead(<<1, 2, 3>>, FALSE)
    /\ line_list_argsort_hashes = ArgSort(HashColumn(line_list))
    /\ spectral_models = <<SpectralSynthesisModel(<<2, 3>>)>>
    /\ session_spectral_model_conflicts
           = spectral_model_conflicts(spectral_models, line_list)
    /\ last = Ran("new", "none")
    /\ identity = <<>>
    /\ fit_trace = NoFitTrace
    /\ tab = NewTab
    /\ tab_trace = NoTabTrace
    /\ display = NoDisplay
    /\ exported = NoArchive
    /\ options = NewOptions
    /\ import_trace = NoImport
    /\ sort_trace = NoSort
    /\ balmer = NoDialogs
    /\ gesture = NoGesture

NextOptions ==
    \/ \E row \in 0..2, value \in BOOLEAN, N \in 0..MaxContinuumOrder,
          is_ok \in BOOLEAN :
          CheckOption(row, value, N, is_ok)
    \/ \E row \in 0..(2 + MaxEdits * (1 + MaxContinuumOrder)), column \in 1..2,
          text \in Texts :
          EditBound(row, column, text)
    \/ \E text \in Texts, auto_fit \in BOOLEAN, outcome \in FitOutcomes :
          UpdateSmoothingBound(text, auto_fit, outcome)

SpecOptions == InitOptions /\ [][NextOptions]_vars

\* --------------------------------------------------- claims about the bounds
\* a stored pair with both bounds set has lower < upper
OrderedPair(pair) == (pair[1].set /\ pair[2].set) => pair[1].v < pair[2].v

StoredPairsOrdered(o) ==
    /\ \A p \in DOMAIN o.metadata.bounds : OrderedPair(o.metadata.bounds[p])
    /\ OrderedPair(o.sigma_smooth)

\* the edit just made asked for a lower bound >= the upper bound
WouldCross ==
    \/ /\ options'.op = "setData"
       /\ options'.column \in 1..2
       /\ options'.parameter \in DOMAIN options.metadata.bounds
       /\ LET stored == options.metadata.bounds[options'.parameter]
          IN IF options'.column = 1
             THEN stored[2].set /\ GE(options'.typed, stored[2].v)
             ELSE stored[1].set /\ LE(options'.typed, stored[1].v)
    \/ /\ options'.op = "update_smoothing_bound"
       /\ options'.typed.kind = "finite"
       /\ 0 - options'.typed.v >= options'.typed.v

BoundsEnforced ==
    options'.edits = options.edits + 1 =>
        /\ WouldCross =>
              /\ options'.raised # "none"
              /\ options'.metadata.bounds = options.metadata.bounds
              /\ options'.sigma_smooth = options.sigma_smooth
        /\ StoredPairsOrdered(options')

\* C18: an edit that would make a lower bound >= its upper bound is rejected
\* with an error and leaves the stored bounds as they were, so that after any
\* edits no stored (lower, upper) pair has lower >= upper.
C18_BoundsEnforced == [][BoundsEnforced]_vars

\* ------------------------------- claims about the import of measured widths
MeasuredOp == "import_transitions_with_measured_equivalent_widths"

\* the models from position n + 1 on
Added(models, n) == SubSeq(models, n + 1, Len(models))

\* one acceptable profile model on the single transition h, with the width
\* the file supplies for it in Angstrom (thousandths of the model's unit)
IsMeasuredModelOf(m, h) ==
    /\ m.kind = "profile"
    /\ m.transition_hashes = <<h>>
    /\ m.is_acceptable
    /\ m.fitted_result.present
    /\ m.fitted_result.ew = MeasuredEquivalentWidth(SuppliedEW(h))

PreviousModelsUnchanged ==
    /\ Len(spectral_models') >= Len(spectral_models)
    /\ SubSeq(spectral_models', 1, Len(spectral_models)) = spectral_models

OneModelPerImportedTransition ==
    LET added == Added(spectral_models', Len(spectral_models))
    IN /\ \A h \in import_trace'.imported :
              Cardinality({i \in 1..Len(added) : IsMeasuredModelOf(added[i], h)}) = 1
       /\ \A i \in 1..Len(added) :
              \E h \in import_trace'.imported : IsMeasuredModelOf(added[i], h)

MeasuredImportAddsImported ==
    (last'.op = MeasuredOp /\ last'.err = "none") =>
        PreviousModelsUnchanged /\ OneModelPerImportedTransition

\* C21: an import of transitions with measured equivalent widths adds exactly
\* one acceptable profile model per transition of the imported files, on
\* that transition alone and with 1e-3 times the supplied width; it adds no
\* model for a transition that was in the session and is not in the files,
\* and leaves the models there were as they are.
C21_OneModelPerImportedTransition == [][MeasuredImportAddsImported]_vars

\* ------------------------------------- the mouse events on a spectrum figure
\* event.xdata of an event outside the axes (None)
Outside == 0

Xs == 1..MaxX

\* a < b for floats: false when one of them is nan
Lt(a, b) == a # NaN /\ b # NaN /\ a < b

\* the builtins min(a, b) and max(a, b): a, unless b < a (b > a)
PyMin(a, b) == IF Lt(b, a) THEN b ELSE a

PyMax(a, b) == IF Lt(a, b) THEN b ELSE a

\* _interactive_mask_region_signal: None, no such attribute, or (time, cid)
SignalNone == [state |-> "None", cid |-> 0]

SignalUnset == [state |-> "unset", cid |-> 0]

Signal(cid) == [state |-> "set", cid |-> cid]

\* a widget after construction, with a model selected. SMHSpecDisplay sets
\* the signal to None, ChemicalAbundancesTab has no such attribute.
\* mask, antimask_flag: the selected model's metadata; fit_mask, fit_flag:
\* the mask and the flag its stored fit was computed with; xy0, xy2: the
\* corners xy[0, 0] and xy[2, 0] of the patch; connected: the motion
\* callbacks connected; elapsed: DOUBLE_CLICK_INTERVAL has passed since the
\* time of the signal; shift_key_pressed: the state of the shift key at the
\* last press.
NewGesture(widget) ==
    [widget |-> widget,
     mask |-> <<>>, antimask_flag |-> FALSE,
     fit_mask |-> <<>>, fit_flag |-> FALSE,
     xy0 |-> NaN, xy2 |-> NaN,
     signal |-> IF widget = "SMHSpecDisplay" THEN SignalNone ELSE SignalUnset,
     connected |-> {}, presses |-> 0, elapsed |-> FALSE,
     shift_key_pressed |-> FALSE,
     op |-> "new", raised |-> "none"]

\* the handler op ended, raising what it raised
Handled(g, op, raised) == [g EXCEPT !.op = op, !.raised = raised]

\* spectral_model.fit(): the stored fit is of the mask and flag of now
Refit(g) == [g EXCEPT !.fit_mask = g.mask, !.fit_flag = g.antimask_flag]

\* patch.set_xy with xmin = event.xdata, xmax = nan, and the signal set to
\* (time.time(), mpl_connect("motion_notify_event", update_mask_region))
StartMask(g, xdata) ==
    [g EXCEPT !.xy0 = xdata, !.xy2 = NaN,
              !.signal = Signal(g.presses + 1),
              !.connected = @ \cup {g.presses + 1},
              !.presses = @ + 1,
              !.elapsed = FALSE]

\* xy[:, 0] = nan; mpl_disconnect(signal_cid); del the signal
CleanUp(g) ==
    [g EXCEPT !.xy0 = NaN, !.xy2 = NaN,
              !.connected = @ \ {g.signal.cid},
              !.signal = SignalUnset]

\* np.abs(xy[0, 0] - xdata) > 0
Moved(x0, xdata) == x0 # NaN /\ xdata # NaN /\ x0 # xdata

\* the interval, with the antimask flag it was added under
Masked1(s, e, flag) == [s |-> s, e |-> e, antimask |-> flag]

\* SMHSpecDisplay.spectrum_left_mouse_press_KeepsMasks: as the press below, but an
\* antimask switch keeps the masks
spectrum_left_mouse_press_KeepsMasks(g, button, inaxes, dblclick, xdata, shift) ==
    LET op == "spectrum_left_mouse_press"
    IN IF button # 1 \/ ~inaxes THEN Handled(g, op, "none")
       ELSE IF dblclick
       THEN Handled(g, op, remove_mask(g.mask, xdata).raised)
       ELSE LET switched == IF g.antimask_flag # shift
                            THEN [g EXCEPT !.antimask_flag = ~@]
                            ELSE g
            IN Handled(StartMask(switched, xdata), op, "none")

\* SMHSpecDisplay.spectrum_left_mouse_press
spectrum_left_mouse_press(g, button, inaxes, dblclick, xdata, shift) ==
    LET op == "spectrum_left_mouse_press"
    IN IF button # 1 \/ ~inaxes THEN Handled(g, op, "none")
       ELSE IF dblclick
       THEN Handled(g, op, remove_mask(g.mask, xdata).raised)
       ELSE LET switched == IF g.antimask_flag # shift
                            THEN [g EXCEPT !.mask = <<>>, !.antimask_flag = ~@]
                            ELSE g
            IN Handled(StartMask(switched, xdata), op, "none")

\* update_mask_region (the same in both widgets)
update_mask_region(g, xdata, late) ==
    LET op == "update_mask_region"
    IN IF xdata = Outside THEN Handled(g, op, "none")
       ELSE IF g.signal.state = "unset" THEN Handled(g, op, "AttributeError")
       ELSE IF g.signal.state = "None" THEN Handled(g, op, "TypeError")
       ELSE IF late THEN Handled([g EXCEPT !.xy2 = xdata], op, "none")
       ELSE Handled(g, op, "none")

\* SMHSpecDisplay.spectrum_left_mouse_release
spectrum_left_mouse_release(g, event_xdata, late, outcome) ==
    LET op == "spectrum_left_mouse_release"
        xdata == IF event_xdata = Outside THEN g.xy2 ELSE event_xdata
        appended == [g EXCEPT !.mask = Append(@, Masked1(PyMin(g.xy0, g.xy2),
                                                        PyMax(g.xy0, g.xy2),
                                                        g.antimask_flag))]
    IN IF g.signal.state = "None" THEN Handled(g, op, "TypeError")
       ELSE IF g.signal.state = "unset" THEN Handled(g, op, "none")
       ELSE IF late /\ Moved(g.xy0, xdata)
       THEN IF outcome # "ok" THEN Handled(appended, op, outcome)
            ELSE Handled(CleanUp(Refit(appended)), op, "none")
       ELSE Handled(CleanUp(g), op, "none")

\* ChemicalAbundancesTab.figure_mouse_press and spectrum_axis_mouse_press
figure_mouse_press(g, inaxes, dblclick, xdata, outcome) ==
    LET op == "spectrum_axis_mouse_press"
        k == LatestMatch(g.mask, xdata)
        removed == IF k = 0 THEN g ELSE [g EXCEPT !.mask = DeleteAt(@, k)]
    IN IF ~inaxes THEN Handled(g, "figure_mouse_press", "none")
       ELSE IF dblclick
       THEN IF outcome # "ok" THEN Handled(removed, op, outcome)
            ELSE Handled(Refit(removed), op, "none")
       ELSE Handled(StartMask(g, xdata), op, "none")

\* ChemicalAbundancesTab.figure_mouse_release and spectrum_axis_mouse_release
figure_mouse_release(g, inaxes, event_xdata, late, outcome) ==
    LET op == "spectrum_axis_mouse_release"
        xdata == IF event_xdata = Outside THEN g.xy2 ELSE event_xdata
        appended == [g EXCEPT !.mask = Append(@, Masked1(g.xy0, g.xy2,
                                                        g.antimask_flag))]
    IN IF ~inaxes THEN Handled(g, "figure_mouse_release", "none")
       ELSE IF g.signal.state = "unset" THEN Handled(g, op, "none")
       ELSE IF late /\ Moved(g.xy0, xdata)
       THEN IF outcome # "ok" THEN Handled(appended, op, outcome)
            ELSE Handled(CleanUp(Refit(appended)), op, "none")
       ELSE Handled(CleanUp(g), op, "none")

\* what the mouse events leave alone
aroundGesture ==
    <<managerVars, identity, fit_trace, tab, tab_trace, display, exported, options,
      import_trace, sort_trace, balmer>>

\* the time of an event: DOUBLE_CLICK_INTERVAL has passed since the signal's
\* time, and stays passed
Later(late) == gesture.elapsed => late

Timed(g, late) == [g EXCEPT !.elapsed = IF g.signal.state = "set" THEN late ELSE @]

\* how a fit started by a mouse handler ends
GestureFitOutcomes == {"ok", "ValueError"}

DisplayPress(button, inaxes, dblclick, xdata, shift) ==
    /\ gesture.widget = "SMHSpecDisplay"
    /\ gesture.presses < MaxPresses
    /\ inaxes = (xdata # Outside)
    /\ gesture' = [spectrum_left_mouse_press(gesture, button, inaxes, dblclick, xdata,
                                             shift)
                      EXCEPT !.shift_key_pressed = shift]
    /\ UNCHANGED aroundGesture

DisplayMotion(xdata, late) ==
    /\ gesture.widget = "SMHSpecDisplay"
    /\ gesture.connected # {}
    /\ Later(late)
    /\ gesture' = Timed(update_mask_region(gesture, xdata, late), late)
    /\ UNCHANGED aroundGesture

DisplayRelease(xdata, late, outcome) ==
    /\ gesture.widget = "SMHSpecDisplay"
    /\ Later(late)
    /\ gesture' = Timed(spectrum_left_mouse_release(gesture, xdata, late, outcome),
                        late)
    /\ Len(gesture'.mask) <= MaxPresses
    /\ UNCHANGED aroundGesture

TabPress(inaxes, dblclick, xdata, outcome) ==
    /\ gesture.widget = "ChemicalAbundancesTab"
    /\ gesture.presses < MaxPresses
    /\ inaxes = (xdata # Outside)
    /\ gesture' = figure_mouse_press(gesture, inaxes, dblclick, xdata, outcome)
    /\ UNCHANGED aroundGesture

TabMotion(xdata, late) ==
    /\ gesture.widget = "ChemicalAbundancesTab"
    /\ gesture.connected # {}
    /\ Later(late)
    /\ gesture' = Timed(update_mask_region(gesture, xdata, late), late)
    /\ UNCHANGED aroundGesture

TabRelease(inaxes, xdata, late, outcome) ==
    /\ gesture.widget = "ChemicalAbundancesTab"
    /\ inaxes = (xdata # Outside)
    /\ Later(late)
    /\ gesture' = Timed(figure_mouse_release(gesture, inaxes, xdata, late, outcome),
                        late)
    /\ Len(gesture'.mask) <= MaxPresses
    /\ UNCHANGED aroundGesture

InitGesture ==
    /\ line_list = LineListRead(<<1, 2, 3>>, FALSE)
    /\ line_list_argsort_hashes = ArgSort(HashColumn(line_list))
    /\ spectral_models = <<ProfileFittingModel(<<1>>)>>
    /\ session_spectral_model_conflicts
           = spectral_model_conflicts(spectral_models, line_list)
    /\ last = Ran("new", "none")
    /\ identity = <<>>
    /\ fit_trace = NoFitTrace
    /\ tab = NewTab
    /\ tab_trace = NoTabTrace
    /\ display = NoDisplay
    /\ exported = NoArchive
    /\ options = NewOptions
    /\ import_trace = NoImport
    /\ sort_trace = NoSort
    /\ balmer = NoDialogs
    /\ gesture \in {NewGesture("SMHSpecDisplay"), NewGesture("ChemicalAbundancesTab")}

XOrOutside == Xs \cup {Outside}

NextGesture ==
    \/ \E button \in {1, 3}, inaxes \in BOOLEAN, dblclick \in BOOLEAN,
          xdata \in XOrOutside, shift \in BOOLEAN :
          DisplayPress(button, inaxes, dblclick, xdata, shift)
    \/ \E xdata \in XOrOutside, late \in BOOLEAN : DisplayMotion(xdata, late)
    \/ \E xdata \in XOrOutside, late \in BOOLEAN, outcome \in GestureFitOutcomes :
          DisplayRelease(xdata, late, outcome)
    \/ \E inaxes \in BOOLEAN, dblclick \in BOOLEAN, xdata \in XOrOutside,
          outcome \in GestureFitOutcomes :
          TabPress(inaxes, dblclick, xdata, outcome)
    \/ \E xdata \in XOrOutside, late \in BOOLEAN : TabMotion(xdata, late)
    \/ \E inaxes \in BOOLEAN, xdata \in XOrOutside, late \in BOOLEAN,
          outcome \in GestureFitOutcomes :
          TabRelease(inaxes, xdata, late, outcome)

SpecGesture == InitGesture /\ [][NextGesture]_vars

\* ------------------------------------------- claims about the mouse events
\* the step is a press that started a mask
StartedMask == gesture'.presses = gesture.presses + 1

\* every interval of the mask list was added under the flag of now
Unmixed(g) == \A k \in 1..Len(g.mask) : g.mask[k].antimask = g.antimask_flag

PressSwitches ==
    IF gesture.antimask_flag # gesture'.shift_key_pressed
    THEN gesture'.mask = <<>> /\ gesture'.antimask_flag = gesture'.shift_key_pressed
    ELSE gesture'.mask = gesture.mask /\ gesture'.antimask_flag = gesture.antimask_flag

AntimaskSwitchClears ==
    gesture'.widget = "SMHSpecDisplay" =>
        /\ StartedMask => PressSwitches
        /\ Unmixed(gesture')

\* C22: in the spectrum display a press with the shift key in the other
\* state than the selected model's antimask flag clears the model's masks and
\* sets the flag to the state of the shift key; so after any presses and
\* releases every interval of the mask list was added while the flag had the
\* value it has now.
C22_MasksNeverMixed == [][AntimaskSwitchClears]_vars

\* a mask was added and fitted with, then a press with the shift key down
\* cleared the list and set the flag
C22_Witness ==
    /\ gesture.widget = "SMHSpecDisplay"
    /\ gesture.op = "spectrum_left_mouse_press"
    /\ gesture.shift_key_pressed
    /\ gesture.antimask_flag
    /\ gesture.mask = <<>>
    /\ Len(gesture.fit_mask) = 1
    /\ ~gesture.fit_flag

\* start <= end (false when one of them is nan)
Ordered(interval) ==
    interval.s # NaN /\ interval.e # NaN /\ interval.s <= interval.e

\* C25: every interval a drag stores in a model's mask list has
\* start <= end, whichever way the user dragged, in the spectrum display and
\* in the chemical abundances tab (so a double click inside it can match and
\* remove it).
C25_IntervalsOrdered == \A k \in 1..Len(gesture.mask) : Ordered(gesture.mask[k])

\* -------------------------------------------------- the Balmer line dialog
\* BalmerLineFittingDialog.__balmer_line_wavelengths (H-alpha, H-beta,
\* H-gamma, H-delta)
balmer_line_wavelengths == <<6563, 4861, 4341, 4102>>

\* the ends of the dispersion of an observed spectrum
Edges == {4000, 4200, 4500, 5000, 7000}

Spectra ==
    {spec \in {[min |-> lo, max |-> hi] : lo \in Edges, hi \in Edges} :
        spec.min < spec.max}

ObservedSpectra == UNION {[1..n -> Spectra] : n \in 0..MaxSpectra}

\* the (0-based) indices of the spectra that hold the wavelength, ascending
RECURSIVE spectrum_indices(_, _)
spectrum_indices(observed_spectra, wavelength) ==
    IF observed_spectra = <<>> THEN <<>>
    ELSE LET n == Len(observed_spectra)
             spec == observed_spectra[n]
             front == spectrum_indices(SubSeq(observed_spectra, 1, n - 1), wavelength)
         IN IF spec.max >= wavelength /\ wavelength >= spec.min
            THEN Append(front, n - 1) ELSE front

\* BalmerLineFittingDialog._identify_balmer_lines
identify_balmer_lines(observed_spectra) ==
    [k \in 1..Len(balmer_line_wavelengths) |->
        spectrum_indices(observed_spectra, balmer_line_wavelengths[k])]

\* first_available or i, with <<>> for None and <<i>> for the index i: an
\* index 0 is as false as None
Or(first_available, i) ==
    IF first_available = <<>> \/ first_available = <<0>> THEN <<i>>
    ELSE first_available

\* the loop of populate_widgets over the lines 0 .. n - 1: first_available
RECURSIVE FirstAvailable(_, _)
FirstAvailable(indices, n) ==
    IF n = 0 THEN <<>>
    ELSE LET before == FirstAvailable(indices, n - 1)
         IN IF Len(indices[n]) > 0 THEN Or(before, n - 1) ELSE before

\* BalmerLineFittingDialog.updated_balmer_line_selected: the spectra of the
\* selected line fill the second combo box, the spectrum selected stays
\* selected when it is among them
updated_balmer_line_selected(d) ==
    LET current == IF d.spectrum_index < 0 THEN <<>>
                   ELSE <<d.spectrum_items[d.spectrum_index + 1]>>
        items == d._balmer_line_indices[d.balmer_index + 1]
        found == {j \in 1..Len(items) : <<items[j]>> = current}
        selected == IF found = {} THEN 0 ELSE (CHOOSE j \in found : TRUE) - 1
    IN [d EXCEPT !.spectrum_items = items,
                 !.spectrum_index = IF items = <<>> THEN 0 - 1 ELSE selected]

\* QComboBox.setCurrentIndex: the slot runs when the index changes
setCurrentIndex(d, i) ==
    IF i = d.balmer_index THEN d
    ELSE updated_balmer_line_selected([d EXCEPT !.balmer_index = i])

\* BalmerLineFittingDialog.populate_widgets
populate_balmer_widgets(d) ==
    LET indices == d._balmer_line_indices
        first_available == FirstAvailable(indices, Len(indices))
        enabled == [d EXCEPT !.enabled = [k \in 1..Len(indices) |-> Len(indices[k]) > 0],
                             !.first_available = first_available]
    IN IF first_available # <<>> THEN setCurrentIndex(enabled, first_available[1])
       ELSE enabled

\* BalmerLineFittingDialog.__init__(observed_spectra): the lines are
\* identified, the combo box of the lines holds the four lines with the
\* first as the current one, the widgets are populated
BalmerLineFittingDialog(observed_spectra) ==
    populate_balmer_widgets(
        [observed_spectra |-> observed_spectra,
         _balmer_line_indices |-> identify_balmer_lines(observed_spectra),
         enabled |-> [k \in 1..Len(balmer_line_wavelengths) |-> TRUE],
         first_available |-> <<>>,
         balmer_index |-> 0,
         spectrum_items |-> <<>>,
         spectrum_index |-> 0 - 1,
         \* self.metadata without "bounds", which is the dict of the class
         \* (the variable's bounds field), and the _parameters attribute of
         \* the options table itself (<<>>: none, the class's list is read)
         metadata |-> [redshift |-> TRUE, smoothing |-> FALSE, continuum |-> FALSE,
                       continuum_order |-> <<>>],
         _parameters |-> <<>>])

\* what the Balmer line dialogs leave alone
aroundBalmer ==
    <<managerVars, identity, fit_trace, tab, tab_trace, display, exported, options,
      import_trace, sort_trace, gesture>>

NewBalmerDialog(observed_spectra) ==
    /\ Len(balmer.dialogs) < 1
    /\ balmer' = [balmer EXCEPT !.dialogs = Append(@, BalmerLineFittingDialog(observed_spectra)),
                                !.op = "BalmerLineFittingDialog"]
    /\ UNCHANGED aroundBalmer

\* the user picks an enabled line in the combo box
SelectBalmerLine(n, i) ==
    /\ n \in 1..Len(balmer.dialogs)
    /\ balmer.dialogs[n].enabled[i + 1]
    /\ balmer' = [balmer EXCEPT !.dialogs[n] = setCurrentIndex(@, i),
                                !.op = "updated_balmer_line_selected"]
    /\ UNCHANGED aroundBalmer

NextBalmerLines ==
    \/ \E observed_spectra \in ObservedSpectra : NewBalmerDialog(observed_spectra)
    \/ \E n \in 1..MaxDialogs, i \in 0..Len(balmer_line_wavelengths) - 1 :
          SelectBalmerLine(n, i)

\* no dialog was built
InitBalmer == InitOptions

SpecBalmerLines == InitBalmer /\ [][NextBalmerLines]_vars

\* ---------------------------------------- claims about the Balmer line dialog
\* the (0-based) lines that some observed spectrum holds
Available(d) ==
    {i \in 0..Len(balmer_line_wavelengths) - 1 :
        \E k \in 1..Len(d.observed_spectra) :
            /\ d.observed_spectra[k].min <= balmer_line_wavelengths[i + 1]
            /\ balmer_line_wavelengths[i + 1] <= d.observed_spectra[k].max}

SelectsLowestAvailable(d) ==
    /\ \A i \in 0..Len(balmer_line_wavelengths) - 1 : d.enabled[i + 1] = (i \in Available(d))
    /\ Available(d) # {} =>
          /\ d.balmer_index \in Available(d)
          /\ \A i \in Available(d) : d.balmer_index <= i

\* C23: when the Balmer dialog populates its widgets the line selected is the
\* first available one, the lowest index of (H-alpha, H-beta, H-gamma,
\* H-delta) that some observed spectrum holds, H-alpha included; the lines no
\* spectrum holds are disabled.
C23_FirstAvailableSelected ==
    [][balmer'.op = "BalmerLineFittingDialog" =>
          SelectsLowestAvailable(balmer'.dialogs[Len(balmer'.dialogs)])]_vars

\* ------------------------------------------ claims about the options table
\* the rows of the table are the three parameters, followed by c0 .. cN when
\* the continuum is enabled with order N
RowsOf(metadata) ==
    IF metadata.continuum
    THEN _parameters \o SubSeq(CNames, 1, 1 + metadata.continuum_order[1])
    ELSE _parameters

\* C24: after any edits of the check boxes of the Balmer options table
\* (the continuum set to true twice in a row and a cancelled order dialog
\* included) the parameter rows are redshift, smoothing, continuum when the
\* continuum is disabled, and those three followed by c0 .. cN, without
\* duplicates, when it is enabled with order N = metadata["continuum_order"].
C24_RowsMatchContinuum == options._parameters = RowsOf(options.metadata)

\* the stored fit was computed with the mask list and the flag of now
FitCurrent(g) == g.fit_mask = g.mask /\ g.fit_flag = g.antimask_flag

\* the step is a release that ends a gesture a press began
GestureEnds ==
    /\ gesture.signal.state = "set"
    /\ gesture'.op \in {"spectrum_left_mouse_release", "spectrum_axis_mouse_release"}
    /\ gesture'.raised = "none"

\* C26: a mouse handler that changes a model's mask list or antimask flag
\* refits the model before the gesture of press and release ends: when the
\* gesture is over the stored fit is of the mask list and the flag of now, a
\* quick click that only switches the antimask mode included.
C26_RefittedWhenGestureEnds == [][GestureEnds => FitCurrent(gesture')]_vars

ReleaseOps ==
    {"spectrum_left_mouse_release", "spectrum_axis_mouse_release", "figure_mouse_release"}

\* a release that finds no signal set leaves the masks alone and raises nothing
QuietRelease ==
    (gesture'.op \in ReleaseOps /\ gesture.signal.state # "set") =>
        gesture'.mask = gesture.mask /\ gesture'.raised = "none"

OneRegistration ==
    /\ Cardinality(gesture'.connected) <= 1
    /\ StartedMask => gesture.connected = {}
    /\ QuietRelease

\* C27: in every order of presses, releases and motions (a release outside
\* the axes and a release without a press included) at most one motion
\* callback connected for the interactive mask is outstanding, the one a
\* press connected is disconnected before the next press connects another,
\* and a release that finds no signal adds no mask and raises no error.
C27_OneMotionCallback == [][OneRegistration]_vars

SessionAsBefore ==
    /\ line_list' = line_list
    /\ line_list_argsort_hashes' = line_list_argsort_hashes
    /\ spectral_models' = spectral_models

FailedMeasuredImport == last'.op = MeasuredOp /\ last'.err # "none"

\* C28: an import of measured transitions that fails (no equivalent_width
\* column in the imported line lists, or a merge that raises) leaves the
\* session's line list, hash index and models as they were before the call,
\* whether the session had a line list or none.
C28_FailedImportChangesNothing == [][FailedMeasuredImport => SessionAsBefore]_vars

\* no transition hash is twice among the rows
EachHashOnce(rows) ==
    \A i \in 1..Len(rows), j \in 1..Len(rows) : rows[i].hash = rows[j].hash => i = j

\* the fit result and the acceptability flag of every model of the session
\* are what they were
LiveFitsKept ==
    /\ Len(spectral_models') = Len(spectral_models)
    /\ \A k \in 1..Len(spectral_models) :
          /\ spectral_models'[k].fitted_result = spectral_models[k].fitted_result
          /\ spectral_models'[k].is_acceptable = spectral_models[k].is_acceptable

ExportWritesEachOnce ==
    exported'.op = "export" =>
        EachHashOnce(exported'.line_list_subset) /\ LiveFitsKept

\* C29: the line list subset an export writes holds each transition hash at
\* most once, whatever models are selected (two selected models on the same
\* transition included), and the export leaves the fit result and the
\* acceptability flag of every model of the session as they were.
C29_ExportedSubsetHasNoDuplicates == [][ExportWritesEachOnce]_vars

\* ------------------------------------------- the options of several dialogs
\* self._parameters of the options table of dialog n: the attribute of the
\* table if it has one, the list of the class otherwise
ParametersOf(b, n) ==
    IF b.dialogs[n]._parameters # <<>> THEN b.dialogs[n]._parameters ELSE b._parameters

\* self.parent.metadata["bounds"] of dialog n: metadata.update() copied the
\* reference to the dict of _default_option_metadata, and nothing assigns
\* the key afterwards
BoundsOf(b, n) == b.bounds

\* the options table of dialog n as setData sees it
OptionsOf(b, n) ==
    [NewOptions EXCEPT
        !._parameters = ParametersOf(b, n),
        !.metadata = [k \in DOMAIN NewOptions.metadata |->
                         IF k = "bounds" THEN BoundsOf(b, n)
                         ELSE b.dialogs[n].metadata[k]]]

\* the spectrum the dialogs of this specification are opened on
WholeSpectrum == <<[min |-> 4000, max |-> 7000]>>

\* the rows a table may grow to
MaxRows == 3 + 1 + MaxContinuumOrder

OpenDialog ==
    /\ Len(balmer.dialogs) < MaxDialogs
    /\ balmer' = [balmer EXCEPT
                     !.dialogs = Append(@, BalmerLineFittingDialog(WholeSpectrum)),
                     !.op = "BalmerLineFittingDialog",
                     !.raised = "none",
                     !.dialog = Len(balmer.dialogs) + 1]
    /\ UNCHANGED aroundBalmer

\* setData of the options table of dialog n on a cell the view lets the user
\* edit. Unchecking the continuum binds a list of its own to the table
\* (self._parameters = self._parameters[:3]); every other write goes to the
\* list the table reads, and the bounds go to the dict the metadata refers to.
DialogSetData(n, row, column, value, N, is_ok) ==
    /\ n \in 1..Len(balmer.dialogs)
    /\ LET o == OptionsOf(balmer, n)
       IN /\ row < Len(o._parameters)
          /\ flags(o, row, column)
          /\ LET r == setData(o, row, column, value, N, is_ok)
                 own == \/ column = 0 /\ row = 2 /\ ~value
                        \/ balmer.dialogs[n]._parameters # <<>>
             IN /\ Len(r._parameters) <= MaxRows
                /\ balmer' = [balmer EXCEPT
                                 !.dialogs[n]._parameters
                                     = IF own THEN r._parameters ELSE <<>>,
                                 !.dialogs[n].metadata
                                     = [k \in DOMAIN @ |-> r.metadata[k]],
                                 !._parameters = IF own THEN @ ELSE r._parameters,
                                 !.bounds = r.metadata.bounds,
                                 !.op = "setData",
                                 !.raised = r.raised,
                                 !.dialog = n]

\* the user checks or unchecks an option of dialog n
DialogCheckOption(n, row, value, N, is_ok) ==
    /\ DialogSetData(n, row, 0, value, N, is_ok)
    /\ UNCHANGED aroundBalmer

\* the user types a bound in dialog n
DialogEditBound(n, row, column, text) ==
    /\ DialogSetData(n, row, column, text, 0, TRUE)
    /\ UNCHANGED aroundBalmer

NextDialogs ==
    \/ OpenDialog
    \/ \E n \in 1..MaxDialogs, value \in BOOLEAN,
          N \in 0..MaxContinuumOrder, is_ok \in BOOLEAN :
          DialogCheckOption(n, 2, value, N, is_ok)
    \/ \E n \in 1..MaxDialogs, column \in 1..2, text \in Texts :
          DialogEditBound(n, 0, column, text)

SpecDialogs == InitBalmer /\ [][NextDialogs]_vars

\* ------------------------------------------ claims about several dialogs
\* what dialog n shows: its parameter rows and its bounds
Seen(b, n) == [rows |-> ParametersOf(b, n), bounds |-> BoundsOf(b, n)]

StartsFresh ==
    balmer'.op = "BalmerLineFittingDialog" =>
        Seen(balmer', balmer'.dialog) = [rows |-> _parameters, bounds |-> <<>>]

OthersUntouched ==
    balmer'.op = "setData" =>
        \A m \in 1..Len(balmer.dialogs) :
            m # balmer'.dialog => Seen(balmer', m) = Seen(balmer, m)

\* C30: the option state of a Balmer dialog is its own: a new dialog and its
\* options table start with no bounds and the three rows redshift, smoothing,
\* continuum, and a bound set or the continuum enabled in one dialog changes
\* neither the bounds nor the rows another dialog shows, whether that one
\* was built before or after.
C30_OptionsPrivateToDialog == [][StartsFresh /\ OthersUntouched]_vars

====
